---- MODULE Spec2Model ----
(***************************************************************************)
(* Model of the csv2api-router pipeline: the batch dispatcher              *)
(* (BatchExecutor.execute, for_loop_caller) and the structured-extraction  *)
(* gateway (generate_single_api_call, call_ollama,                         *)
(* generate_api_call_list_from_prompt_and_csv).                            *)
(*                                                                         *)
(* One behaviour exercises one entry point, chosen in Init (`entry').      *)
(* Python's Optional[X] is modelled as a set: None is {} and a value x is  *)
(* {x}.  Timestamps of results are not modelled.                           *)
(***************************************************************************)
EXTENDS Integers, Sequences, FiniteSets, TLC

\* ------------------------------------------------------------------ bounds
\* largest number of rows handed to a dispatcher in one call
MaxRows == 3
\* largest worker count the BatchExecutor is constructed with
MaxWorkers == 2
\* largest max_retries argument given to for_loop_caller
MaxRetriesArg == 3

MaxCsvRows == 2

MaxPromptWords == 2

MaxNlpRows == 2

MaxDataItems == 2

\* the clock of the router stops at MaxClock minutes
MaxClock == 60

\* ------------------------------------------------------- Optional[X] values
None == {}

Some(x) == {x}

IsNone(o) == o = {}

TheValue(o) == CHOOSE x \in o : TRUE

\* ------------------------------------------------------------- small helpers
Range(s) == {s[i] : i \in DOMAIN s}

\* the increasing enumeration of a finite set of integers
RECURSIVE SetToSortedSeq(_)
SetToSortedSeq(S) ==
    IF S = {} THEN <<>>
    ELSE LET m == CHOOSE x \in S : \A y \in S : x <= y
         IN  <<m>> \o SetToSortedSeq(S \ {m})

\* ------------------------------------------ text of the service's response
\* A response is a sequence of text pieces.  The pieces "{", "}", "[", "]" are
\* the single delimiter characters and "q" is a double-quote character that
\* opens or closes a string value.  Every other piece is a run of characters
\* holding no delimiter and no quote:
\*   "w"   prose, or the content of a string
\*   "F"   a code-fence marker (```json or ```)
\*   "M"   the member  "method": "get_transaction"
\*   "T"   the member  "tx_hash": "0x..."
\*   "H"   the member  "hash": "0x..."
\*   "C"   the member  "function": "get_abi"
\*   "P"   the key     "params":      (a value follows)
\*   "N"   the key     "note":        (a value follows)
\*   "C'"  the member  'function': 'get_abi'   (single-quoted)
\*   "P'"  the key     'params':               (single-quoted)
\* The commas between members and items are not modelled.
MemberKey(tok) ==
    CASE tok = "M" -> "method"
      [] tok = "T" -> "tx_hash"
      [] tok = "H" -> "hash"
      [] tok = "C" -> "function"
      [] tok = "C'" -> "function"
      [] tok = "P" -> "params"
      [] tok = "P'" -> "params"
      [] tok = "N" -> "note"
      [] OTHER -> ""

IsMember(tok, relaxed) == tok \in {"M", "T", "H", "C"} \/ (relaxed /\ tok = "C'")

IsKey(tok, relaxed) == tok \in {"P", "N"} \/ (relaxed /\ tok = "P'")

\* parsed values: a string, an object (m: key -> value) or a list (items)
StrV == [t |-> "str", m |-> <<>>, items |-> <<>>]

ObjV(m) == [t |-> "obj", m |-> m, items |-> <<>>]

ListV(items) == [t |-> "list", m |-> <<>>, items |-> items]

NoParse == [ok |-> FALSE, next |-> 0, v |-> StrV]

RECURSIVE IndexFrom(_, _, _)
IndexFrom(s, c, i) ==
    IF i > Len(s) THEN 0
    ELSE IF s[i] = c THEN i
    ELSE IndexFrom(s, c, i + 1)

\* str.find: the position of the first c in s, 0 where Python gives -1
Find(s, c) == IndexFrom(s, c, 1)

\* the parser behind json.loads (relaxed = FALSE) and ast.literal_eval
\* (relaxed = TRUE, which also reads the single-quoted pieces)
RECURSIVE ParseValue(_, _, _)
RECURSIVE ParseMembers(_, _, _, _)
RECURSIVE ParseItems(_, _, _, _)
ParseValue(s, i, relaxed) ==
    IF i > Len(s) THEN NoParse
    ELSE IF s[i] = "q"
         THEN LET j == IndexFrom(s, "q", i + 1)
              IN  IF j = 0 THEN NoParse
                  ELSE [ok |-> TRUE, next |-> j + 1, v |-> StrV]
    ELSE IF s[i] = "{" THEN ParseMembers(s, i + 1, <<>>, relaxed)
    ELSE IF s[i] = "[" THEN ParseItems(s, i + 1, <<>>, relaxed)
    ELSE NoParse

ParseMembers(s, i, m, relaxed) ==
    IF i > Len(s) THEN NoParse
    ELSE IF s[i] = "}" THEN [ok |-> TRUE, next |-> i + 1, v |-> ObjV(m)]
    ELSE IF IsMember(s[i], relaxed)
         THEN ParseMembers(s, i + 1, (MemberKey(s[i]) :> StrV) @@ m, relaxed)
    ELSE IF IsKey(s[i], relaxed)
         THEN LET r == ParseValue(s, i + 1, relaxed)
              IN  IF r.ok
                  THEN ParseMembers(s, r.next, (MemberKey(s[i]) :> r.v) @@ m, relaxed)
                  ELSE NoParse
    ELSE NoParse

ParseItems(s, i, items, relaxed) ==
    IF i > Len(s) THEN NoParse
    ELSE IF s[i] = "]" THEN [ok |-> TRUE, next |-> i + 1, v |-> ListV(items)]
    ELSE LET r == ParseValue(s, i, relaxed)
         IN  IF r.ok THEN ParseItems(s, r.next, Append(items, r.v), relaxed)
             ELSE NoParse

\* the whole text must be one value
ParseWhole(s, relaxed) ==
    LET r == ParseValue(s, 1, relaxed)
    IN  IF r.ok /\ r.next = Len(s) + 1 THEN r ELSE NoParse

JsonLoads(s) == ParseWhole(s, FALSE)

LiteralEval(s) == ParseWhole(s, TRUE)

\* re.sub(r'```json\s*|\s*```', '', json_str)
StripFences(s) == SelectSeq(s, LAMBDA tok : tok # "F")

\* the scan "for i in range(first, len(json_str))": the position at which the
\* count of opening minus closing delimiters returns to zero, 0 when the loop
\* runs to its else branch
RECURSIVE MatchClose(_, _, _, _, _)
MatchClose(s, i, count, open, close) ==
    IF i > Len(s) THEN 0
    ELSE IF s[i] = open THEN MatchClose(s, i + 1, count + 1, open, close)
    ELSE IF s[i] = close
         THEN IF count - 1 = 0 THEN i
              ELSE MatchClose(s, i + 1, count - 1, open, close)
    ELSE MatchClose(s, i + 1, count, open, close)

\* lines 41-63 / 255-274: strip the fences, find the first opening delimiter,
\* cut the text at the matching closing one
ExtractBalanced(text, open, close) ==
    LET json_str == StripFences(text)
        first == Find(json_str, open)
        last == MatchClose(json_str, first, 0, open, close)
    IN  IF first = 0 THEN [found |-> "none", str |-> json_str]
        ELSE IF last = 0 THEN [found |-> "incomplete", str |-> json_str]
        ELSE [found |-> "ok", str |-> SubSeq(json_str, first, last)]

\* ------------------------------------------------ what the service answers
\* subprocess.run either times out or gives stdout: optional leading
\* commentary, an optional pair of code fences around a body, trailing prose
Leads == { <<>>, <<"w">>, <<"w", "{", "w", "}", "w">> }

Trails == { <<>>, <<"w">>, <<"w", "}", "]", "w">> }

\* bodies holding a JSON object (or what is left of one)
ObjectBodies ==
    { <<"{", "M", "P", "{", "T", "}", "}">>,
      <<"{", "M", "P", "{", "H", "}", "}">>,
      <<"{", "M", "P", "{", "N", "q", "w", "q", "}", "}">>,
      <<"{", "M", "P", "{", "T", "N", "q", "}", "q", "}", "}">>,
      <<"{", "M", "P", "{", "T", "N", "q", "{", "q", "}", "}">>,
      <<"{", "M", "}">>,
      <<"{", "P", "{", "T", "}", "}">>,
      <<"{", "M", "P", "q", "w", "q", "}">>,
      <<"{", "M", "P", "{", "T", "}">>,
      <<"{", "w", "}">> }

\* bodies holding a JSON array (or what is left of one)
ArrayBodies ==
    { <<"[", "{", "C", "P", "{", "}", "}", "]">>,
      <<"[", "{", "C", "P", "{", "}", "}", "{", "C", "}", "]">>,
      <<"[", "{", "C", "}", "{", "C", "P", "{", "}", "}", "]">>,
      <<"[", "{", "C", "}", "]">>,
      <<"[", "q", "w", "q", "]">>,
      <<"[", "q", "w", "q", "{", "C", "}", "]">>,
      <<"[", "[", "]", "{", "C", "P", "{", "}", "}", "]">>,
      <<"[", "{", "C'", "P'", "{", "}", "}", "]">>,
      <<"[", "{", "M", "P", "{", "T", "}", "}", "]">>,
      <<"[", "{", "C", "P", "{", "N", "q", "]", "q", "}", "}", "]">>,
      <<"[", "{", "C", "P", "{", "}", "}">>,
      <<"[", "w", "]">>,
      <<"[", "]">> }

Bodies == ObjectBodies \cup ArrayBodies \cup { <<>>, <<"w">> }

TimedOut ==
    [timeout |-> TRUE, lead |-> <<>>, fenced |-> FALSE, body |-> <<>>, trail |-> <<>>]

ServiceOutputs ==
    {TimedOut} \cup
    [timeout : {FALSE}, lead : Leads, fenced : BOOLEAN, body : Bodies, trail : Trails]

\* result.stdout.strip()
Stdout(out) ==
    LET fence == IF out.fenced THEN <<"F">> ELSE <<>>
    IN  out.lead \o fence \o out.body \o fence \o out.trail

\* ------------------------------------------- what a Python call comes to
Ret(v) == [k |-> "ret", v |-> v, e |-> ""]

Raise(e) == [k |-> "raise", v |-> None, e |-> e]

\* --------------------------------------------- generate_single_api_call
\* the names tried when params has no tx_hash (line 84), in order
AliasKeys == <<"tx_hash", "transactionHash", "txn_hash", "hash", "txnHash">>

\* lines 71-91: validate the parsed object, fill tx_hash from an alias
ValidateApiCall(api_call) ==
    IF api_call.t # "obj" THEN Raise("ValueError")
    ELSE IF "method" \notin DOMAIN api_call.m THEN Raise("ValueError")
    ELSE IF "params" \notin DOMAIN api_call.m THEN Raise("ValueError")
    ELSE IF api_call.m["params"].t # "obj" THEN Raise("ValueError")
    ELSE LET params == api_call.m["params"].m
             have == {i \in DOMAIN AliasKeys : AliasKeys[i] \in DOMAIN params}
         IN  IF "tx_hash" \in DOMAIN params THEN Ret(Some(api_call))
             ELSE IF have = {} THEN Raise("ValueError")
             ELSE LET i == CHOOSE x \in have : \A y \in have : x <= y
                      filled == ("tx_hash" :> params[AliasKeys[i]]) @@ params
                  IN  Ret(Some(ObjV(("params" :> ObjV(filled)) @@ api_call.m)))

\* lines 28-91, the body of the try block
SingleApiCallTry(out) ==
    IF out.timeout THEN Raise("TimeoutExpired")
    ELSE LET x == ExtractBalanced(Stdout(out), "{", "}")
         IN  IF x.found # "ok" THEN Ret(None)
             ELSE LET p == JsonLoads(x.str)
                  IN  IF ~p.ok THEN Raise("JSONDecodeError")
                      ELSE ValidateApiCall(p.v)

\* mutant: only the timeout and the JSON error handlers are there
SingleApiCallExceptNarrow(r) ==
    IF r.k = "raise" /\ r.e \in {"TimeoutExpired", "JSONDecodeError"} THEN Ret(None) ELSE r

\* lines 93-101: every exception is turned into a None result
SingleApiCallExcept(r) == IF r.k = "raise" THEN Ret(None) ELSE r

GenerateSingleApiCall(out) == SingleApiCallExcept(SingleApiCallTry(out))

\* ------------------------------- generate_api_call_list_from_prompt_and_csv
\* the pair (valid_api_calls or None, message or None); `errors' is the list
\* whose entries are joined into the message
ListRet(calls, msg, errors) ==
    [k |-> "ret", calls |-> calls, msg |-> msg, errors |-> errors, e |-> ""]

ListRaise(e) ==
    [k |-> "raise", calls |-> None, msg |-> None, errors |-> <<>>, e |-> e]

\* line 310: {"function": item, "params": {}}
Coerced == ObjV(("function" :> StrV) @@ ("params" :> ObjV(<<>>)))

\* mutant: an item that is neither a dict nor a string is skipped in silence
ValidateItemSilent(acc, item, idx) ==
    IF item.t = "obj"
    THEN IF "function" \in DOMAIN item.m /\ "params" \in DOMAIN item.m
         THEN [acc EXCEPT !.valid = Append(@, item)]
         ELSE [acc EXCEPT !.errors = Append(@, [idx |-> idx, why |-> "missing keys"])]
    ELSE IF item.t = "str"
    THEN [valid |-> Append(acc.valid, Coerced),
          errors |-> Append(acc.errors, [idx |-> idx, why |-> "is a string"])]
    ELSE acc

\* mutant: one rejected item makes the whole response rejected
ValidateItemFatal(acc, item, idx) ==
    IF item.t = "obj" /\ "function" \in DOMAIN item.m /\ "params" \in DOMAIN item.m
    THEN IF acc.errors = <<>> THEN [acc EXCEPT !.valid = Append(@, item)] ELSE acc
    ELSE [valid |-> <<>>,
          errors |-> Append(acc.errors, [idx |-> idx, why |-> "missing keys"])]

\* mutant: a string item is coerced without an entry in the errors
ValidateItemCoercesQuietly(acc, item, idx) ==
    IF item.t = "obj"
    THEN IF "function" \in DOMAIN item.m /\ "params" \in DOMAIN item.m
         THEN [acc EXCEPT !.valid = Append(@, item)]
         ELSE [acc EXCEPT !.errors = Append(@, [idx |-> idx, why |-> "missing keys"])]
    ELSE IF item.t = "str"
    THEN [acc EXCEPT !.valid = Append(@, Coerced)]
    ELSE [acc EXCEPT !.errors = Append(@, [idx |-> idx, why |-> "not a dict or string"])]

\* one turn of the loop at lines 297-314 on item number idx (from 0)
ValidateItem(acc, item, idx) ==
    IF item.t = "obj"
    THEN IF "function" \in DOMAIN item.m /\ "params" \in DOMAIN item.m
         THEN [acc EXCEPT !.valid = Append(@, item)]
         ELSE [acc EXCEPT !.errors = Append(@, [idx |-> idx, why |-> "missing keys"])]
    ELSE IF item.t = "str"
    THEN [valid |-> Append(acc.valid, Coerced),
          errors |-> Append(acc.errors, [idx |-> idx, why |-> "is a string"])]
    ELSE [acc EXCEPT !.errors = Append(@, [idx |-> idx, why |-> "not a dict or string"])]

RECURSIVE ValidateItems(_, _, _)
ValidateItems(items, i, acc) ==
    IF i > Len(items) THEN acc
    ELSE ValidateItems(items, i + 1, ValidateItem(acc, items[i], i - 1))

\* lines 277-290: json.loads, then ast.literal_eval on failure
ParseApiCalls(json_str) ==
    LET p == JsonLoads(json_str)
    IN  IF p.ok THEN p ELSE LiteralEval(json_str)

\* lines 291-320
KeepValidCalls(api_calls) ==
    IF api_calls.t # "list" THEN ListRet(None, Some("not a list"), <<>>)
    ELSE LET r == ValidateItems(api_calls.items, 1, [valid |-> <<>>, errors |-> <<>>])
         IN  IF r.valid = <<>>
             THEN ListRet(None, Some("no valid API call"), r.errors)
             ELSE IF r.errors # <<>>
             THEN ListRet(Some(r.valid), Some("some malformed"), r.errors)
             ELSE ListRet(Some(r.valid), None, <<>>)

\* lines 240-320, the body of the try block
ApiCallListTry(out) ==
    IF out.timeout THEN ListRaise("TimeoutExpired")
    ELSE LET x == ExtractBalanced(Stdout(out), "[", "]")
         IN  IF x.found = "none" THEN ListRet(None, Some("no JSON array"), <<>>)
             ELSE IF x.found = "incomplete"
             THEN ListRet(None, Some("incomplete JSON array"), <<>>)
             ELSE LET p == ParseApiCalls(x.str)
                  IN  IF ~p.ok THEN ListRet(None, Some("failed to parse"), <<>>)
                      ELSE KeepValidCalls(p.v)

\* lines 321-326
ApiCallListExcept(r) ==
    IF r.k # "raise" THEN r
    ELSE IF r.e = "TimeoutExpired" THEN ListRet(None, Some("timed out"), <<>>)
    ELSE ListRet(None, Some("error"), <<>>)

GenerateApiCallList(out) == ApiCallListExcept(ApiCallListTry(out))

\* ------------------------------------------------------------ call_ollama
\* line 114
max_retries == 3

\* line 115
base_delay == 2

\* line 117
Methods == <<"get_transaction", "get_receipt">>

\* transaction hashes as character sequences: none/empty, no 0x prefix, valid
TxHashes == { <<>>, <<"b", "a", "d">>, <<"0", "x", "1", "2">> }

\* tx_hash.startswith("0x")
StartsWith0x(h) == Len(h) >= 2 /\ h[1] = "0" /\ h[2] = "x"

RECURSIVE Pow2(_)
Pow2(n) == IF n = 0 THEN 1 ELSE 2 * Pow2(n - 1)

\* log entries (history): a call of the wrapped function, with whether it gave
\* a usable result, and a time.sleep(delay)
CallEvent(m, a, ok) ==
    [ev |-> "call", method |-> m, attempt |-> a, ok |-> ok, delay |-> 0]

SleepEvent(m, a, d) ==
    [ev |-> "sleep", method |-> m, attempt |-> a, ok |-> FALSE, delay |-> d]

\* lines 113-117: the locals on entering the loops
OllamaStart == [method |-> 1, attempt |-> 0, api_calls |-> <<>>, log |-> <<>>]

\* mutant: the backoff sleep is taken after the last attempt as well
OllamaRetrySleepsAfterLast(st) ==
    LET slept == [st EXCEPT !.log = Append(@, SleepEvent(st.method, st.attempt,
                                                         base_delay * Pow2(st.attempt)))]
    IN  IF st.attempt < max_retries - 1
        THEN [slept EXCEPT !.attempt = @ + 1]
        ELSE [slept EXCEPT !.method = @ + 1, !.attempt = 0]

\* lines 125-128 and 133-136: sleep and continue, or fall out of the loop
OllamaRetry(st) ==
    IF st.attempt < max_retries - 1
    THEN [st EXCEPT !.attempt = @ + 1,
                    !.log = Append(@, SleepEvent(st.method, st.attempt,
                                                 base_delay * Pow2(st.attempt)))]
    ELSE [st EXCEPT !.method = @ + 1, !.attempt = 0]

\* lines 118-136: one turn of the attempt loop, r being what
\* generate_single_api_call came to
OllamaStep(st, r) ==
    LET ok == r.k = "ret" /\ r.v # None
        called == [st EXCEPT !.log = Append(@, CallEvent(st.method, st.attempt, ok))]
    IN  IF ok
        THEN [called EXCEPT !.api_calls = Append(@, TheValue(r.v)),
                            !.method = @ + 1, !.attempt = 0]
        ELSE OllamaRetry(called)

OllamaDone(st) == st.method > Len(Methods)

\* lines 105-111: the checks on tx_hash
OllamaRejects(tx_hash) == tx_hash = <<>> \/ ~StartsWith0x(tx_hash)

\* line 138 (and 107, 111): what call_ollama returns
OllamaReturn(st) == Ret(Some(st.api_calls))

\* a whole run of call_ollama; script[m][a + 1] is what the service answers
\* to attempt a for method m
RECURSIVE OllamaRun(_, _)
OllamaRun(st, script) ==
    IF OllamaDone(st) THEN st
    ELSE OllamaRun(OllamaStep(st, GenerateSingleApiCall(script[st.method][st.attempt + 1])),
                   script)

CallOllama(tx_hash, script) ==
    IF OllamaRejects(tx_hash) THEN OllamaReturn(OllamaStart)
    ELSE OllamaReturn(OllamaRun(OllamaStart, script))

\* lines 140-142
GenerateApiCalls(tx_hash, script) == CallOllama(tx_hash, script)

\* ------------------------------------------------- the processing function
\* what one call of the processing function comes to: a value, None, or an
\* exception (a subclass of Exception) with its message
Messages == {"boom", "timed out"}

FuncOutcomes ==
    {Ret(Some(<<StrV>>)), Ret(None)} \cup {Raise(msg) : msg \in Messages}

\* the answers of the service that a script of a whole call_ollama run draws on
ScriptOutputs ==
    { TimedOut,
      [timeout |-> FALSE, lead |-> <<>>, fenced |-> TRUE,
       body |-> <<"{", "M", "P", "{", "T", "}", "}">>, trail |-> <<"w">>],
      [timeout |-> FALSE, lead |-> <<>>, fenced |-> FALSE,
       body |-> <<"w">>, trail |-> <<>>] }

Scripts == [DOMAIN Methods -> [1..max_retries -> ScriptOutputs]]

\* every attempt made for the row timed out: the gateway ran out of attempts
\* on timeouts for each of its methods
TimeoutsExhausted(script) ==
    \A m \in DOMAIN Methods : \A a \in 1..max_retries : script[m][a].timeout

\* PipelineProcessor._process_single_row, lines 20-46
ProcessSingleRow(row, script) ==
    IF row.tx_hash = <<>> THEN Ret(None)
    ELSE LET r == GenerateApiCalls(row.tx_hash, script)
         IN  IF r.k = "raise" THEN Ret(None)
             ELSE IF r.v = None \/ TheValue(r.v) = <<>> THEN Ret(None)
             ELSE Ret(Some(TheValue(r.v)))

\* every (outcome, attempts exhausted on timeouts) pair that a row with the
\* given hash can come to
RowOutcomes ==
    [h \in TxHashes |->
        { [out |-> ProcessSingleRow([row_number |-> 0, tx_hash |-> h], s),
           timedout |-> ~OllamaRejects(h) /\ TimeoutsExhausted(s)] : s \in Scripts }]

\* every outcome of a processing function that is not _process_single_row
GenericOutcomes == { [out |-> o, timedout |-> FALSE] : o \in FuncOutcomes }

\* ------------------------------------------------- text of a CSV cell value
\* A cell value is a sequence of pieces, each a fixed run of characters:
\*   "https" "http" ":" "/" "?" "#" "&" " "    as written
\*   "k="          the query key and its equals sign  hash=
\*   "h1" "h2"     two hashes: 0x and 64 hexadecimal characters
\*   "z"           0x and 64 characters that are not all hexadecimal
\*   "s"           the short value 0xabc123
\*   "tx" "lunch"  words; the other pieces are host names or parts of them
\* Percent escapes are not modelled (no piece holds % or +).
HashPieces == {"h1", "h2"}

Has0xPieces == {"h1", "h2", "z", "s"}

PieceLen(tok) ==
    CASE tok \in {"h1", "h2", "z"} -> 66
      [] tok = "s" -> 8
      [] tok \in {":", "/", "?", "#", "&", " "} -> 1
      [] tok = "https" -> 5
      [] tok = "http" -> 4
      [] tok = "k=" -> 5
      [] tok = "tx" -> 2
      [] tok = "lunch" -> 5
      [] tok = "polygonscan.com" -> 15
      [] tok \in {"etherscan.io", "ETHERSCAN.IO", "basescan.org"} -> 12
      [] OTHER -> 11

\* len(s)
RECURSIVE StrLen(_)
StrLen(s) == IF s = <<>> THEN 0 ELSE PieceLen(Head(s)) + StrLen(Tail(s))

\* str.lower()
LowerPiece(tok) ==
    CASE tok = "ETHERSCAN.IO" -> "etherscan.io"
      [] tok = "Tag" -> "tag"
      [] tok = "GAS" -> "gas"
      [] OTHER -> tok

Lower(s) == [i \in DOMAIN s |-> LowerPiece(s[i])]

\* s.startswith('0x') and len(s) == 66
IsHashShaped(s) == s # <<>> /\ s[1] \in Has0xPieces /\ StrLen(s) = 66

\* s.lstrip(c), s.rstrip(c), s.strip(c)
RECURSIVE LStrip(_, _)
LStrip(s, c) == IF s # <<>> /\ Head(s) = c THEN LStrip(Tail(s), c) ELSE s

RECURSIVE RStrip(_, _)
RStrip(s, c) ==
    IF s # <<>> /\ s[Len(s)] = c THEN RStrip(SubSeq(s, 1, Len(s) - 1), c) ELSE s

Strip(s, c) == RStrip(LStrip(s, c), c)

\* s.split(c): the segments between the occurrences of c, empty ones included
RECURSIVE SplitOn(_, _)
SplitOn(s, c) ==
    LET i == Find(s, c)
    IN  IF i = 0 THEN <<s>>
        ELSE <<SubSeq(s, 1, i - 1)>> \o SplitOn(SubSeq(s, i + 1, Len(s)), c)

\* s.split(): the runs between whitespace
SplitWords(s) == SelectSeq(SplitOn(s, " "), LAMBDA w : w # <<>>)

\* key in s, for strings
ContainsSeq(s, key) ==
    \E i \in 1..(Len(s) - Len(key) + 1) : SubSeq(s, i, i + Len(key) - 1) = key

\* the position of the first piece of s that is in D, from position i on;
\* Len(s) + 1 when there is none
RECURSIVE FirstOf(_, _, _)
FirstOf(s, D, i) ==
    IF i > Len(s) THEN Len(s) + 1
    ELSE IF s[i] \in D THEN i
    ELSE FirstOf(s, D, i + 1)

\* the pieces made of scheme characters only (letters, digits, + - .)
IsSchemeChars(tok) == tok \notin {":", "/", "?", "#", "&", " ", "k="}

\* urllib.parse.urlsplit, as far as netloc, path and query go
UrlSplit(url0) ==
    LET url1 == LStrip(url0, " ")
        i == Find(url1, ":")
        scheme == /\ i > 1
                  /\ url1[1] \notin Has0xPieces
                  /\ \A j \in 1..(i - 1) : IsSchemeChars(url1[j])
        url2 == IF scheme THEN SubSeq(url1, i + 1, Len(url1)) ELSE url1
        slashes == Len(url2) >= 2 /\ url2[1] = "/" /\ url2[2] = "/"
        delim == FirstOf(url2, {"/", "?", "#"}, 3)
        netloc == IF slashes THEN SubSeq(url2, 3, delim - 1) ELSE <<>>
        url3 == IF slashes THEN SubSeq(url2, delim, Len(url2)) ELSE url2
        hash == Find(url3, "#")
        url4 == IF hash = 0 THEN url3 ELSE SubSeq(url3, 1, hash - 1)
        q == Find(url4, "?")
    IN  [netloc |-> netloc,
         path |-> IF q = 0 THEN url4 ELSE SubSeq(url4, 1, q - 1),
         query |-> IF q = 0 THEN <<>> ELSE SubSeq(url4, q + 1, Len(url4))]

\* urllib.parse.parse_qs(query).values(), flattened: the values of the
\* name=value pairs in order; a pair without '=' or with an empty value is
\* left out
QueryValues(query) ==
    LET pairs == SplitOn(query, "&")
        named == SelectSeq(pairs, LAMBDA p : Len(p) >= 2 /\ p[1] = "k=")
    IN  [i \in DOMAIN named |-> Tail(named[i])]

\* the first element of a list of strings that is hash-shaped once stripped
FirstHashShaped(list) ==
    LET hits == {i \in DOMAIN list : IsHashShaped(Strip(list[i], " "))}
    IN  IF hits = {} THEN None
        ELSE Some(Strip(list[CHOOSE i \in hits : \A j \in hits : i <= j], " "))

\* url.startswith(('http://', 'https://'))
StartsWithHttp(url) ==
    Len(url) >= 4 /\ url[1] \in {"http", "https"}
        /\ url[2] = ":" /\ url[3] = "/" /\ url[4] = "/"

\* csv_cleaner.extract_tx_hash_from_url, lines 45-95
ExtractTxHashFromUrl(url0) ==
    IF url0 = <<>> THEN None
    ELSE LET url1 == Strip(url0, " ")
         IN  IF IsHashShaped(url1) THEN Some(url1)
             ELSE LET url == IF StartsWithHttp(url1) THEN url1
                             ELSE <<"https", ":", "/", "/">> \o url1
                      parsed == UrlSplit(url)
                      parts == SplitOn(Strip(parsed.path, "/"), "/")
                      inPath == FirstHashShaped(parts)
                      inQuery == FirstHashShaped(QueryValues(parsed.query))
                      inWords == FirstHashShaped(SplitWords(url))
                 IN  IF inPath # None THEN inPath
                     ELSE IF inQuery # None THEN inQuery
                     ELSE inWords

\* CHAIN_MAP, lines 18-24, in the order of the dict
CHAIN_MAP ==
    << [domain |-> <<"etherscan.io">>, chain |-> "ETHEREUM"],
       [domain |-> <<"polygonscan.com">>, chain |-> "POLYGON"],
       [domain |-> <<"optimistic.", "etherscan.io">>, chain |-> "OPTIMISM"],
       [domain |-> <<"arbiscan.io">>, chain |-> "ARBITRUM"],
       [domain |-> <<"basescan.org">>, chain |-> "BASE"] >>

\* the first entry of an ordered table that `matches' accepts, 0 if none
FirstMatch(table, matches(_)) ==
    LET hits == {i \in DOMAIN table : matches(table[i])}
    IN  IF hits = {} THEN 0 ELSE CHOOSE i \in hits : \A j \in hits : i <= j

\* csv_cleaner.detect_chain_from_url, lines 26-43
DetectChainFromUrl(url) ==
    IF url = <<>> THEN "ETHEREUM"
    ELSE LET domain == Lower(UrlSplit(url).netloc)
             i == FirstMatch(CHAIN_MAP, LAMBDA e : ContainsSeq(domain, e.domain))
         IN  IF i = 0 THEN "ETHEREUM" ELSE CHAIN_MAP[i].chain

\* DataExtractor.chain_patterns, extractor.py lines 14-19, in the order of
\* the dict; the patterns ignore case
chain_patterns ==
    << [chain |-> "optimism", domain |-> <<"optimistic.", "etherscan.io">>, unless |-> {}],
       [chain |-> "ethereum", domain |-> <<"etherscan.io">>, unless |-> {"optimistic."}],
       [chain |-> "polygon", domain |-> <<"polygonscan.com">>, unless |-> {}],
       [chain |-> "bsc", domain |-> <<"bscscan.com">>, unless |-> {}] >>

\* pattern.search(text)
PatternSearch(p, text) ==
    /\ ContainsSeq(Lower(text), p.domain)
    /\ Range(Lower(text)) \cap p.unless = {}

\* chain.upper()
UpperChain(c) ==
    CASE c = "optimism" -> "OPTIMISM"
      [] c = "ethereum" -> "ETHEREUM"
      [] c = "polygon" -> "POLYGON"
      [] OTHER -> "BSC"

\* extractor.py lines 127-134 (and 52-56, 91): the first pattern found in the
\* text names the chain, ETHEREUM when none is found
ChainByPatterns(text) ==
    LET i == FirstMatch(chain_patterns, LAMBDA p : PatternSearch(p, text))
    IN  IF i = 0 THEN "ETHEREUM" ELSE UpperChain(chain_patterns[i].chain)

\* the cell values the url functions are applied to
UrlSchemes == { <<>>, <<"https", ":", "/", "/">>, <<"http", ":", "/", "/">> }

UrlHosts ==
    { <<>>, <<"etherscan.io">>, <<"optimistic.", "etherscan.io">>,
      <<"polygonscan.com">>, <<"arbiscan.io">>, <<"basescan.org">>,
      <<"bscscan.com">>, <<"example.com">>, <<"ETHERSCAN.IO">> }

UrlTails ==
    { <<>>, <<"/", "tx">> }
    \cup UNION { { <<"/", "tx", "/", h>>,
                   <<"/", "tx", "/", h, "/">>,
                   <<"/", "tx", "/", h, "#", "lunch">>,
                   <<"/", "tx", "?", "k=", h>>,
                   <<"/", "tx", "?", h>>,
                   <<"/", "tx", "?", "k=", "lunch", "&", "k=", h>>,
                   <<"/", "tx", "/", h, " ", "lunch">>,
                   <<" ", h>> } : h \in Has0xPieces }
    \cup UNION { { <<"/", h, "/", g>>,
                   <<"/", "tx", "/", h, "?", "k=", g>> } :
                 <<h, g>> \in {<<"h2", "h1">>, <<"z", "h1">>, <<"s", "h1">>} }

TokenStreams ==
    { <<"lunch">>, <<" ">> }
    \cup UNION { { <<h>>, <<" ", h, " ">>, <<h, " ", "lunch">>,
                   <<"lunch", " ", h>>, <<"lunch", " ", h, " ", "lunch">> } :
                 h \in Has0xPieces }

CellValues ==
    TokenStreams \cup { s \o h \o t : s \in UrlSchemes, h \in UrlHosts, t \in UrlTails }

\* ------------------------------------------------------------ csv_cleaner
\* FunctionType, lines 11-15, in the order of declaration
FunctionType == <<"tag_as_expense", "get_transaction", "get_receipt">>

\* A float: the value of the integer digits and the fractional digits without
\* trailing zeros, so that equal records are equal numbers
Digits == <<"0", "1", "2", "3", "4", "5", "6", "7", "8", "9">>

DigitValue(c) == (CHOOSE i \in DOMAIN Digits : Digits[i] = c) - 1

IsDigit(c) == \E i \in DOMAIN Digits : Digits[i] = c

RECURSIVE DigitsValue(_)
DigitsValue(ds) ==
    IF ds = <<>> THEN 0 ELSE 10 * DigitsValue(SubSeq(ds, 1, Len(ds) - 1)) + DigitValue(ds[Len(ds)])

\* float(val) for a string of digits and dots: ValueError unless it holds one
\* digit at least and one dot at most
ParseFloat(val) ==
    LET dots == {i \in DOMAIN val : val[i] = "."}
        dot == IF dots = {} THEN Len(val) + 1 ELSE CHOOSE i \in dots : TRUE
    IN  IF Cardinality(dots) > 1 \/ Len(val) - Cardinality(dots) = 0
        THEN Raise("ValueError")
        ELSE Ret([int |-> DigitsValue(SubSeq(val, 1, dot - 1)),
                  frac |-> RStrip(SubSeq(val, dot + 1, Len(val)), "0")])

\* lines 148-156: the amount of a non-empty cell, None when it has no digits
\* or float() raised
CoerceAmount(v) ==
    LET val == SelectSeq(v, LAMBDA c : IsDigit(c) \/ c = ".")
    IN  IF val = <<>> THEN None
        ELSE LET f == ParseFloat(val)
             IN  IF f.k = "raise" THEN None ELSE Some(f.v)

\* str(n) for a natural number
RECURSIVE NatStr(_)
NatStr(n) == IF n < 10 THEN <<Digits[n + 1]>> ELSE NatStr(n \div 10) \o <<Digits[(n % 10) + 1]>>

\* the number of zeros a sequence of digits starts with
RECURSIVE LeadingZeros(_)
LeadingZeros(ds) == IF ds # <<>> /\ Head(ds) = "0" THEN 1 + LeadingZeros(Tail(ds)) ELSE 0

\* str(x) for a float x that is not negative and is less than 10**16: the
\* shortest digits, with an exponent when x is less than 0.0001 and not zero
FloatStr(x) ==
    LET zeros == LeadingZeros(x.frac)
        digits == SubSeq(x.frac, zeros + 1, Len(x.frac))
        exp == zeros + 1
    IN  IF x.int = 0 /\ x.frac # <<>> /\ zeros >= 4
        THEN <<Head(digits)>>
             \o (IF Len(digits) > 1 THEN <<".">> \o Tail(digits) ELSE <<>>)
             \o <<"e", "-">> \o (IF exp < 10 THEN <<"0">> ELSE <<>>) \o NatStr(exp)
        ELSE NatStr(x.int) \o <<".">> \o (IF x.frac = <<>> THEN <<"0">> ELSE x.frac)

\* bool(x) for an Optional float and for an Optional string
TruthyFloat(o) == o # None /\ (TheValue(o).int # 0 \/ TheValue(o).frac # <<>>)

TruthyStr(o) == o # None /\ TheValue(o) # <<>>

\* lines 141-158 for a text cell and for a cell of an amount column; a cell is
\* None when the row has no value for the column
CleanText(cell) ==
    IF cell = None \/ Strip(TheValue(cell), " ") = <<>> THEN None
    ELSE Some(Strip(TheValue(cell), " "))

CleanAmount(cell) ==
    IF cell = None \/ Strip(TheValue(cell), " ") = <<>> THEN None
    ELSE CoerceAmount(Strip(TheValue(cell), " "))

\* determine_function_type, lines 97-117; eth and usd are the values under
\* 'amount in ETH' and 'amount in USD'
DetermineFunctionType(row_data) ==
    LET has_tx_hash == TruthyStr(row_data.tx_hash)
        has_purpose == TruthyStr(row_data.purpose) \/ TruthyStr(row_data.expense_category)
        has_amount == TruthyFloat(row_data.eth) \/ TruthyFloat(row_data.usd)
    IN  IF has_tx_hash /\ (has_purpose \/ has_amount) THEN "tag_as_expense"
        ELSE IF has_tx_hash THEN "get_transaction"
        ELSE "get_transaction"

\* lines 136-217, the body of the loop for one row of the reader.  The result
\* says whether the row is kept, and gives the cleaned row and its type.
SkippedRow ==
    [kept |-> FALSE,
     cleaned |-> [tx_hash |-> None, tx_link |-> None, purpose |-> None,
                  expense_category |-> None, chain |-> None, eth |-> None, usd |-> None],
     type |-> "none"]

\* the value of an expression, evaluated once
Only(S) == CHOOSE x \in S : TRUE

\* lines 141-158: the cleaned cells, in the order of the columns tx_hash,
\* tx_link, purpose, 'amount in ETH', 'amount in USD'
CleanCells(row) ==
    [tx_hash |-> CleanText(row.tx_hash), tx_link |-> CleanText(row.tx_link),
     purpose |-> CleanText(row.purpose),
     eth |-> CleanAmount(row.eth), usd |-> CleanAmount(row.usd)]

\* mutant: a hash-shaped cell is taken before the hash of the link
FindTxHashPrefersDirect(cells) ==
    LET texts == [i \in 1..3 |->
                    LET c == <<cells.tx_hash, cells.tx_link, cells.purpose>>[i]
                    IN  IF c = None THEN <<>> ELSE TheValue(c)]
    IN  Only({ IF direct # None
               THEN [tx_hash |-> direct, chain |-> "ETHEREUM"]
               ELSE IF cells.tx_link # None /\ ExtractTxHashFromUrl(TheValue(cells.tx_link)) # None
               THEN [tx_hash |-> ExtractTxHashFromUrl(TheValue(cells.tx_link)),
                     chain |-> DetectChainFromUrl(TheValue(cells.tx_link))]
               ELSE [tx_hash |-> None, chain |-> "ETHEREUM"] :
               direct \in {FirstHashShaped(texts)} })

\* lines 162-186: the hash of the link and the chain of the link when the link
\* has a hash, else the first hash-shaped text among the cleaned cells
FindTxHash(cells) ==
    LET texts == [i \in 1..3 |->
                    LET c == <<cells.tx_hash, cells.tx_link, cells.purpose>>[i]
                    IN  IF c = None THEN <<>> ELSE TheValue(c)]
    IN  Only({ IF fromLink # None
               THEN [tx_hash |-> fromLink, chain |-> DetectChainFromUrl(TheValue(cells.tx_link))]
               ELSE [tx_hash |-> FirstHashShaped(texts), chain |-> "ETHEREUM"] :
               fromLink \in { IF cells.tx_link # None
                              THEN ExtractTxHashFromUrl(TheValue(cells.tx_link))
                              ELSE None } })

\* lines 194-203: chain, purpose and expense_category of a row that has a hash
Completed(cells, found) ==
    LET purpose == IF TruthyStr(cells.purpose) THEN cells.purpose ELSE Some(<<"General">>)
    IN  [tx_hash |-> found.tx_hash, tx_link |-> cells.tx_link, purpose |-> purpose,
         expense_category |-> purpose, chain |-> Some(found.chain),
         eth |-> cells.eth, usd |-> cells.usd]

CleanRow(row) ==
    IF row.extra THEN SkippedRow   \* v.strip() raises on the list under the key None
    ELSE Only({ IF found.tx_hash = None THEN SkippedRow
                ELSE Only({ [kept |-> TRUE, cleaned |-> cleaned,
                             type |-> DetermineFunctionType(cleaned)] :
                            cleaned \in {Completed(cells, found)} }) :
                cells \in {CleanCells(row)}, found \in {FindTxHash(CleanCells(row))} })

\* mutant: the last of the types with the highest count is chosen
MostCommonLast(function_counts) ==
    LET best == {i \in DOMAIN function_counts :
                    \A j \in DOMAIN function_counts : function_counts[j] <= function_counts[i]}
    IN  FunctionType[CHOOSE i \in best : \A j \in best : j <= i]

\* max(function_counts.items(), key=lambda x: x[1])[0].value, lines 228-229:
\* max keeps the first of the items with the highest count
MostCommon(function_counts) ==
    LET best == {i \in DOMAIN function_counts :
                    \A j \in DOMAIN function_counts : function_counts[j] <= function_counts[i]}
    IN  FunctionType[CHOOSE i \in best : \A j \in best : i <= j]

\* lines 226-235
SelectFunction(function_counts, cleaned_rows) ==
    IF cleaned_rows # <<>> THEN MostCommon(function_counts) ELSE "get_transaction"

\* the rows a table is made of
AmountCells ==
    { <<"0">>, <<"0", ".", "1">>, <<"a">>, <<"1", ".", "5", ".", "1">>,
      <<"$", "1", ",", "0", "5", "0", ".", "5", "0", " ", "USD">> }

\* the cells of an amount column that the coercion is tried on by itself
AmountTexts ==
    AmountCells
    \cup { <<" ">>, <<"-", "5">>, <<"5", ".">>, <<".", "5">>, <<"0", "0", "7">>,
           <<"1", "e", "3">>, <<"2", "5", "0", "0", "0">>, <<"3", ".", "1", "4">>,
           <<"0", ".", "0", "0", "0", "1">>, <<"0", ".", "0", "0", "0", "0", "1">>,
           <<"0", ".", "0", "0", "0", "0", "1", "5">>, <<"-", "0", ".", "0", "0", "0", "0", "2">>,
           <<"0", ".", "0", "0", "0", "0", "0", "0", "0", "0", "0", "1">>,
           <<"6", " ", "ETH">> }

LinkCells ==
    { <<"h1">>,
      <<"https", ":", "/", "/", "etherscan.io", "/", "tx", "/", "h1">>,
      <<"https", ":", "/", "/", "optimistic.", "etherscan.io", "/", "tx", "/", "h1">>,
      <<"polygonscan.com", "/", "tx", "/", "h1">>,
      <<"https", ":", "/", "/", "polygonscan.com", "/", "tx", "/", "z">>,
      <<"https", ":", "/", "/", "etherscan.io", "/", "tx", "/", "s">>,
      <<"lunch">> }

RawRow(tx_hash, tx_link, purpose, eth, usd, extra) ==
    [tx_hash |-> tx_hash, tx_link |-> tx_link, purpose |-> purpose,
     eth |-> eth, usd |-> usd, extra |-> extra]

RawRows ==
    { RawRow(None, l, p, None, None, FALSE) :
        l \in {None} \cup {Some(c) : c \in LinkCells},
        p \in {None, Some(<<"General">>), Some(<<"lunch">>)} }
    \cup
    { RawRow(Some(<<d>>), l, None, None, None, FALSE) :
        d \in {"h2", "s"},
        l \in {None, Some(<<" ">>),
               Some(<<"https", ":", "/", "/", "polygonscan.com", "/", "tx", "/", "h1">>),
               Some(<<"https", ":", "/", "/", "polygonscan.com", "/", "tx", "/", "s">>)} }
    \cup
    { RawRow(None, Some(<<"https", ":", "/", "/", "etherscan.io", "/", "tx", "/", "h1">>),
             None, e, u, FALSE) :
        e \in {None} \cup {Some(c) : c \in AmountCells}, u \in {None, Some(<<"5">>)} }
    \cup
    { RawRow(None, Some(<<"h1">>), None, None, None, TRUE) }

\* BatchExecutor.get_successful_results, lines 107-109, and
\* batch_caller.get_successful_results, lines 84-86
GetSuccessfulResults(results) ==
    [i \in DOMAIN SelectSeq(results, LAMBDA r : r.success /\ r.data # None) |->
        TheValue(SelectSeq(results, LAMBDA r : r.success /\ r.data # None)[i].data)]

\* BatchExecutor.get_failed_rows, lines 111-113
GetFailedRows(results) ==
    [i \in DOMAIN SelectSeq(results, LAMBDA r : ~r.success) |->
        SelectSeq(results, LAMBDA r : ~r.success)[i].row_number]

\* batch_caller.get_failed_results, lines 88-90
GetFailedResults(results) == SelectSeq(results, LAMBDA r : ~r.success)

\* ------------------------------------------------------------ BatchExecutor
ExecutionResult(success, data, error, row_number) ==
    [success |-> success, data |-> data, error |-> error, row_number |-> row_number]

\* BatchExecutor._execute_single, lines 28-52; o is what func(data) came to
ExecuteSingle(o, row_number) ==
    IF o.k = "ret"
    THEN Ret(ExecutionResult(TRUE, o.v, None, row_number))
    ELSE Ret(ExecutionResult(FALSE, None, Some(o.e), row_number))

\* mutant: a failed row is raised to the caller instead of being recorded
CollectedReraises(fut, row_num) ==
    IF fut.k = "ret" /\ fut.v.success THEN Ret(fut.v) ELSE Raise("row failed")

\* lines 89-101: what the collecting loop appends for a finished future
Collected(fut, row_num) ==
    IF fut.k = "ret" THEN Ret(fut.v)
    ELSE Ret(ExecutionResult(FALSE, None, Some(fut.e), row_num))

\* list.sort(key=lambda x: x.row_number), line 104: a stable sort
RECURSIVE InsertByRow(_, _)
InsertByRow(sorted, r) ==
    IF sorted = <<>> THEN <<r>>
    ELSE IF r.row_number < Head(sorted).row_number THEN <<r>> \o sorted
    ELSE <<Head(sorted)>> \o InsertByRow(Tail(sorted), r)

\* mutant: the list is returned in completion order
SortByRowSkipped(results) == results

RECURSIVE SortByRow(_)
SortByRow(results) ==
    IF results = <<>> THEN <<>>
    ELSE InsertByRow(SortByRow(SubSeq(results, 1, Len(results) - 1)),
                     results[Len(results)])

VARIABLES
    entry,       \* the entry point this behaviour exercises
    e_func,      \* execute: which processing function is applied
    e_workers,   \* execute: self.max_workers
    e_rows,      \* execute: zip(data_list, row_numbers)
    e_pc,        \* execute: position of the calling thread
    e_next,      \* execute: index of the next item to submit
    e_queue,     \* execute: the pool's work queue (indices, FIFO)
    e_fut,       \* execute: state and result of each future
    e_outcome,   \* execute: what func did for each item (history)
    e_yielded,   \* execute: futures already yielded by as_completed
    e_results,   \* execute: the local list `results'
    e_order,     \* execute: the order in which the futures were yielded (history)
    e_ret,       \* execute: the returned list (None until returned)
    c_n,         \* for_loop_caller: len(cleaned_rows)
    c_max,       \* for_loop_caller: the argument max_retries
    c_pc,        \* for_loop_caller: position
    c_row,       \* for_loop_caller: row_num
    c_attempt,   \* for_loop_caller: attempt
    c_last,      \* for_loop_caller: what each row's last call came to (history)
    c_calls,     \* for_loop_caller: number of calls made for each row (history)
    c_log,       \* for_loop_caller: calls and sleeps so far (history)
    c_results,   \* for_loop_caller: results
    c_failed,    \* for_loop_caller: failed_rows
    c_ret,       \* for_loop_caller: the returned pair (None until returned)
    o_tx,        \* call_ollama: the argument tx_hash
    o_pc,        \* call_ollama: position
    o_st,        \* call_ollama: the locals method, attempt, api_calls (and a log)
    o_ret,       \* call_ollama: what it came to (None until it returns)
    s_out,       \* gateway function under test: the service's answer
    s_pc,        \* gateway function under test: position
    s_json,      \* gateway function under test: json_str after the extraction
    s_ret,       \* generate_single_api_call: what the call came to
    l_ret,       \* generate_api_call_list_from_prompt_and_csv: what it came to
    u_url,       \* URL function under test: the argument
    u_pc,        \* URL function under test: position
    u_ret,       \* URL function under test: the returned value (None until returned)
    k_table,     \* clean_and_classify_csv: the rows of the reader
    k_pc,        \* clean_and_classify_csv: position
    k_done,      \* clean_and_classify_csv: what became of each row read (history)
    k_rows,      \* clean_and_classify_csv: cleaned_rows
    k_counts,    \* clean_and_classify_csv: function_counts, in the order of FunctionType
    k_total,     \* clean_and_classify_csv: total_rows
    k_skipped,   \* clean_and_classify_csv: skipped_rows
    k_ret,       \* clean_and_classify_csv: the returned pair (None until returned)
    m_counts,    \* selection under test: function_counts
    m_pc,        \* selection under test: position
    m_ret,       \* selection under test: the selected name (None until selected)
    n_prompt,    \* process_natural_language: the argument prompt
    n_rows,      \* process_natural_language: the argument csv_data
    n_pc,        \* process_natural_language: position
    n_func,      \* process_natural_language: function_name (None before the inference)
    n_i,         \* process_natural_language: number of rows the loop has taken
    n_formatted, \* process_natural_language: formatted_rows
    n_ret,       \* process_natural_language: what the call came to (None until then)
    a_func,      \* api function under test: its name
    a_args,      \* api function under test: the keyword arguments
    a_pc,        \* api function under test: position
    a_ret,       \* api function under test: what the call came to (None until then)
    v_raw,       \* amount coercion under test: the raw cell
    v_pc,        \* amount coercion under test: position
    v_first,     \* amount coercion under test: the amount of the raw cell
    v_second,    \* amount coercion under test: the amount of str(first)
    d_pc,        \* derived lists: position
    d_succ,      \* derived lists: the successful payloads
    d_failed,    \* derived lists: the failed rows
    p_data,      \* process_data: extracted_data, a list of dicts
    p_pc,        \* process_data: position
    p_i,         \* process_data: the items handled so far
    p_gen,       \* process_data: what generate_api_calls returned for each item (history)
    p_all,       \* process_data: all_api_calls
    p_ret,       \* process_data: what the call came to (None until then)
    r_now,       \* CSVToAPIRouter: datetime.now(), in minutes since construction
    r_cache,     \* CSVToAPIRouter: self._cache
    r_memo,      \* CSVToAPIRouter: what lru_cache holds for get_csv_summary
    r_last       \* CSVToAPIRouter: the last call and its lookup (history)

execVars == <<e_func, e_workers, e_rows, e_pc, e_next, e_queue, e_fut,
              e_outcome, e_yielded, e_results, e_order, e_ret>>

callerVars == <<c_n, c_max, c_pc, c_row, c_attempt, c_last, c_calls, c_log,
                c_results, c_failed, c_ret>>

ollamaVars == <<o_tx, o_pc, o_st, o_ret>>

textVars == <<s_out, s_pc, s_json, s_ret, l_ret>>

urlVars == <<u_url, u_pc, u_ret>>

cleanerVars == <<k_table, k_pc, k_done, k_rows, k_counts, k_total, k_skipped, k_ret>>

selectVars == <<m_counts, m_pc, m_ret>>

nlpVars == <<n_prompt, n_rows, n_pc, n_func, n_i, n_formatted, n_ret>>

apiVars == <<a_func, a_args, a_pc, a_ret>>

processorVars == <<nlpVars, apiVars>>

amountVars == <<v_raw, v_pc, v_first, v_second>>

derivedVars == <<d_pc, d_succ, d_failed>>

dataVars == <<p_data, p_pc, p_i, p_gen, p_all, p_ret>>

routerVars == <<r_now, r_cache, r_memo, r_last>>

restVars == <<amountVars, derivedVars, dataVars, routerVars>>

normalizerVars == <<urlVars, cleanerVars, selectVars, processorVars, restVars>>

vars == <<entry, execVars, callerVars, ollamaVars, textVars, normalizerVars>>

\* ------------------------------------------------------ entry points at rest
ExecIdle ==
    /\ e_func = "none" /\ e_workers = 0 /\ e_rows = <<>> /\ e_pc = "idle"
    /\ e_next = 0 /\ e_queue = <<>> /\ e_fut = <<>> /\ e_outcome = <<>>
    /\ e_yielded = {} /\ e_results = <<>> /\ e_order = <<>> /\ e_ret = None

CallerIdle ==
    /\ c_n = 0 /\ c_max = 0 /\ c_pc = "idle" /\ c_row = 0 /\ c_attempt = 0
    /\ c_last = <<>> /\ c_calls = <<>> /\ c_log = <<>> /\ c_results = <<>>
    /\ c_failed = <<>> /\ c_ret = None

OllamaIdle == o_tx = <<>> /\ o_pc = "idle" /\ o_st = OllamaStart /\ o_ret = None

TextIdle ==
    s_out = TimedOut /\ s_pc = "idle" /\ s_json = None /\ s_ret = None /\ l_ret = None

UrlIdle == u_url = <<>> /\ u_pc = "idle" /\ u_ret = None

CleanerIdle ==
    /\ k_table = <<>> /\ k_pc = "idle" /\ k_done = <<>> /\ k_rows = <<>>
    /\ k_counts = <<0, 0, 0>> /\ k_total = 0 /\ k_skipped = 0 /\ k_ret = None

SelectIdle == m_counts = <<0, 0, 0>> /\ m_pc = "idle" /\ m_ret = None

NlpIdle ==
    /\ n_prompt = <<>> /\ n_rows = <<>> /\ n_pc = "idle" /\ n_func = None
    /\ n_i = 0 /\ n_formatted = <<>> /\ n_ret = None

ApiIdle == a_func = "none" /\ a_args = <<>> /\ a_pc = "idle" /\ a_ret = None

ProcessorIdle == NlpIdle /\ ApiIdle

AmountIdle == v_raw = <<>> /\ v_pc = "idle" /\ v_first = None /\ v_second = None

DerivedIdle == d_pc = "idle" /\ d_succ = <<>> /\ d_failed = <<>>

DataIdle ==
    /\ p_data = <<>> /\ p_pc = "idle" /\ p_i = 0 /\ p_gen = <<>> /\ p_all = <<>>
    /\ p_ret = None

\* app.py line 37: self._cache = {}
EmptyCache == [key \in {} |-> None]

RouterIdle == r_now = 0 /\ r_cache = EmptyCache /\ r_memo = None /\ r_last = None

RestIdle == AmountIdle /\ DerivedIdle /\ DataIdle /\ RouterIdle

NormalizerIdle == UrlIdle /\ CleanerIdle /\ SelectIdle /\ ProcessorIdle /\ RestIdle

GatewayIdle == ExecIdle /\ CallerIdle /\ OllamaIdle /\ TextIdle

\* ------------------------------------------------- BatchExecutor.execute
\* The rows of one call: their row numbers are range(1, n + 1) (line 72) or
\* the row numbers CSVParser.parse gave to the rows it kept (processor.py
\* line 70), so they increase strictly and may have gaps.
RowLists(h) ==
    { [i \in 1..Cardinality(S) |->
          [row_number |-> SetToSortedSeq(S)[i], tx_hash |-> h]] : S \in SUBSET (1..MaxRows) }

N == Len(e_rows)

Running == {i \in 1..N : e_fut[i].st = "running"}

InitExec ==
    /\ entry = "execute"
    /\ \/ e_func = "func" /\ e_rows \in RowLists(<<>>)
       \/ e_func = "_process_single_row" /\ \E h \in TxHashes : e_rows \in RowLists(h)
    /\ e_workers \in 1..MaxWorkers
    /\ e_pc = IF e_rows = <<>> THEN "collect" ELSE "submit"
    /\ e_next = 1
    /\ e_queue = <<>>
    /\ e_fut = [i \in 1..Len(e_rows) |-> [st |-> "new", res |-> None]]
    /\ e_outcome = [i \in 1..Len(e_rows) |-> None]
    /\ e_yielded = {}
    /\ e_results = <<>>
    /\ e_order = <<>>
    /\ e_ret = None
    /\ CallerIdle /\ OllamaIdle /\ TextIdle /\ NormalizerIdle

\* lines 77-85: executor.submit for the next item
Submit ==
    /\ entry = "execute" /\ e_pc = "submit"
    /\ e_fut' = [e_fut EXCEPT ![e_next].st = "queued"]
    /\ e_queue' = Append(e_queue, e_next)
    /\ e_next' = e_next + 1
    /\ e_pc' = IF e_next = N THEN "collect" ELSE "submit"
    /\ UNCHANGED <<entry, normalizerVars, e_func, e_workers, e_rows, e_outcome, e_yielded,
                   e_results, e_order, e_ret, callerVars, ollamaVars, textVars>>

\* mutant: a thread is started for every queued item, whatever max_workers
StartUnbounded(i) ==
    /\ entry = "execute"
    /\ e_queue # <<>> /\ i = Head(e_queue)
    /\ e_queue' = Tail(e_queue)
    /\ e_fut' = [e_fut EXCEPT ![i].st = "running"]
    /\ UNCHANGED <<entry, normalizerVars, e_func, e_workers, e_rows, e_pc, e_next, e_outcome,
                   e_yielded, e_results, e_order, e_ret, callerVars, ollamaVars,
                   textVars>>

\* a free worker thread of the pool takes the oldest queued item
Start(i) ==
    /\ entry = "execute"
    /\ e_queue # <<>> /\ i = Head(e_queue)
    /\ Cardinality(Running) < e_workers
    /\ e_queue' = Tail(e_queue)
    /\ e_fut' = [e_fut EXCEPT ![i].st = "running"]
    /\ UNCHANGED <<entry, normalizerVars, e_func, e_workers, e_rows, e_pc, e_next, e_outcome,
                   e_yielded, e_results, e_order, e_ret, callerVars, ollamaVars,
                   textVars>>

\* the outcomes func can come to on item i
OutcomesOf(i) ==
    IF e_func = "_process_single_row" THEN RowOutcomes[e_rows[i].tx_hash]
    ELSE GenericOutcomes

\* mutant: an item whose function raised goes back to the queue
FinishRetries(i) ==
    /\ entry = "execute"
    /\ e_fut[i].st = "running"
    /\ \E oc \in OutcomesOf(i) :
          /\ IF oc.out.k = "raise" /\ e_outcome[i] = None
             THEN /\ e_fut' = [e_fut EXCEPT ![i].st = "queued"]
                  /\ e_queue' = Append(e_queue, i)
             ELSE /\ e_fut' = [e_fut EXCEPT
                                  ![i] = [st |-> "finished",
                                          res |-> Some(ExecuteSingle(oc.out,
                                                                     e_rows[i].row_number))]]
                  /\ UNCHANGED e_queue
          /\ e_outcome' = [e_outcome EXCEPT ![i] = Some(oc)]
    /\ UNCHANGED <<entry, normalizerVars, e_func, e_workers, e_rows, e_pc, e_next,
                   e_yielded, e_results, e_order, e_ret, callerVars, ollamaVars,
                   textVars>>

\* the worker finishes _execute_single(func, data, row_num) and sets the future
Finish(i) ==
    /\ entry = "execute"
    /\ e_fut[i].st = "running"
    /\ \E oc \in OutcomesOf(i) :
          /\ e_fut' = [e_fut EXCEPT
                          ![i] = [st |-> "finished",
                                  res |-> Some(ExecuteSingle(oc.out, e_rows[i].row_number))]]
          /\ e_outcome' = [e_outcome EXCEPT ![i] = Some(oc)]
    /\ UNCHANGED <<entry, normalizerVars, e_func, e_workers, e_rows, e_pc, e_next, e_queue,
                   e_yielded, e_results, e_order, e_ret, callerVars, ollamaVars,
                   textVars>>

\* lines 88-101: as_completed yields a finished future, its result is appended
Collect(i) ==
    /\ entry = "execute" /\ e_pc = "collect"
    /\ e_fut[i].st = "finished" /\ i \notin e_yielded
    /\ e_yielded' = e_yielded \cup {i}
    /\ e_order' = Append(e_order, i)
    /\ LET c == Collected(TheValue(e_fut[i].res), e_rows[i].row_number)
       IN  IF c.k = "ret"
           THEN e_results' = Append(e_results, c.v) /\ UNCHANGED <<e_pc, e_ret>>
           ELSE e_pc' = "raised" /\ e_ret' = Some(Raise(c.e)) /\ UNCHANGED e_results
    /\ UNCHANGED <<entry, normalizerVars, e_func, e_workers, e_rows, e_next, e_queue,
                   e_fut, e_outcome, callerVars, ollamaVars, textVars>>

\* lines 103-105: every future was yielded; sort and return
ExecReturn ==
    /\ entry = "execute" /\ e_pc = "collect"
    /\ e_yielded = 1..N
    /\ e_results' = SortByRow(e_results)
    /\ e_ret' = Some(Ret(e_results'))
    /\ e_pc' = "done"
    /\ UNCHANGED <<entry, normalizerVars, e_func, e_workers, e_rows, e_next, e_queue, e_fut,
                   e_outcome, e_yielded, e_order, callerVars, ollamaVars, textVars>>

\* processor.py lines 73-77: the lists derived from what execute returned
DeriveExec ==
    /\ entry = "execute" /\ e_pc = "done" /\ d_pc = "idle"
    /\ d_succ' = GetSuccessfulResults(TheValue(e_ret).v)
    /\ d_failed' = GetFailedRows(TheValue(e_ret).v)
    /\ d_pc' = "done"
    /\ UNCHANGED <<entry, execVars, callerVars, ollamaVars, textVars, urlVars, cleanerVars,
                   selectVars, processorVars, amountVars, dataVars, routerVars>>

NextExec ==
    \/ Submit
    \/ \E i \in 1..N : Start(i)
    \/ \E i \in 1..N : Finish(i)
    \/ \E i \in 1..N : Collect(i)
    \/ ExecReturn
    \/ DeriveExec

\* ---------------------------------------------------------- for_loop_caller
CallResult(success, row_number, data, error) ==
    [success |-> success, row_number |-> row_number, data |-> data, error |-> error]

\* batch_caller.py line 22, the default retry_delay
retry_delay == 1

InitCaller ==
    /\ entry = "for_loop_caller"
    /\ c_n \in 0..MaxRows
    /\ c_max \in 0..MaxRetriesArg
    /\ c_pc = "loop"
    /\ c_row = 1
    /\ c_attempt = 0
    /\ c_last = [i \in 1..c_n |-> None]
    /\ c_calls = [i \in 1..c_n |-> 0]
    /\ c_log = <<>>
    /\ c_results = <<>>
    /\ c_failed = <<>>
    /\ c_ret = None
    /\ ExecIdle /\ OllamaIdle /\ TextIdle /\ NormalizerIdle

\* mutant: a row that failed for good is listed in failed_rows only
CallerStepDropsFailure(loc, o) ==
    IF o.k = "ret"
    THEN [loc EXCEPT !.results = Append(@, CallResult(TRUE, loc.row, o.v, None)),
                     !.row = @ + 1, !.attempt = 0]
    ELSE IF loc.attempt < loc.max - 1
    THEN [loc EXCEPT !.attempt = @ + 1]
    ELSE [loc EXCEPT !.failed = Append(@, loc.row), !.row = @ + 1, !.attempt = 0]

\* mutant: every wait is retry_delay, whatever the attempt
CallerStepFixedDelay(loc, o) ==
    LET called == [loc EXCEPT
                      !.log = Append(@, CallEvent(loc.row, loc.attempt, o.k = "ret"))]
    IN  IF o.k = "ret"
        THEN [called EXCEPT
                 !.results = Append(@, CallResult(TRUE, loc.row, o.v, None)),
                 !.row = @ + 1, !.attempt = 0]
        ELSE IF loc.attempt < loc.max - 1
        THEN [called EXCEPT
                 !.log = Append(@, SleepEvent(loc.row, loc.attempt, retry_delay)),
                 !.attempt = @ + 1]
        ELSE [called EXCEPT
                 !.results = Append(@, CallResult(FALSE, loc.row, None, Some(o.e))),
                 !.failed = Append(@, loc.row),
                 !.row = @ + 1, !.attempt = 0]

\* lines 44-67 and 70-75: one turn of the attempt loop on the current row, o
\* being what api_function(**row) came to; loc holds the locals
CallerStep(loc, o) ==
    LET called == [loc EXCEPT
                      !.log = Append(@, CallEvent(loc.row, loc.attempt, o.k = "ret"))]
    IN  IF o.k = "ret"
        THEN [called EXCEPT
                 !.results = Append(@, CallResult(TRUE, loc.row, o.v, None)),
                 !.row = @ + 1, !.attempt = 0]
        ELSE IF loc.attempt < loc.max - 1
        THEN [called EXCEPT
                 !.log = Append(@, SleepEvent(loc.row, loc.attempt,
                                              retry_delay * (loc.attempt + 1))),
                 !.attempt = @ + 1]
        ELSE [called EXCEPT
                 !.results = Append(@, CallResult(FALSE, loc.row, None, Some(o.e))),
                 !.failed = Append(@, loc.row),
                 !.row = @ + 1, !.attempt = 0]

CallerLocals ==
    [row |-> c_row, attempt |-> c_attempt, max |-> c_max, log |-> c_log,
     results |-> c_results, failed |-> c_failed]

CallerAttempt ==
    /\ entry = "for_loop_caller" /\ c_pc = "loop"
    /\ c_row <= c_n /\ c_attempt < c_max
    /\ \E o \in FuncOutcomes :
          LET loc == CallerStep(CallerLocals, o)
          IN  /\ c_row' = loc.row /\ c_attempt' = loc.attempt /\ c_log' = loc.log
              /\ c_results' = loc.results /\ c_failed' = loc.failed
              /\ c_last' = [c_last EXCEPT ![c_row] = Some(o)]
              /\ c_calls' = [c_calls EXCEPT ![c_row] = @ + 1]
    /\ UNCHANGED <<entry, normalizerVars, c_n, c_max, c_pc, c_ret, execVars, ollamaVars, textVars>>

\* range(max_retries) is empty: result stays None and nothing is appended
CallerSkip ==
    /\ entry = "for_loop_caller" /\ c_pc = "loop"
    /\ c_row <= c_n /\ c_attempt >= c_max
    /\ c_row' = c_row + 1
    /\ UNCHANGED <<entry, normalizerVars, c_n, c_max, c_pc, c_attempt, c_last, c_calls, c_log,
                   c_results, c_failed, c_ret, execVars, ollamaVars, textVars>>

\* line 82
CallerReturn ==
    /\ entry = "for_loop_caller" /\ c_pc = "loop"
    /\ c_row > c_n
    /\ c_ret' = Some(Ret([results |-> c_results, failed_rows |-> c_failed]))
    /\ c_pc' = "done"
    /\ UNCHANGED <<entry, normalizerVars, c_n, c_max, c_row, c_attempt, c_last, c_calls, c_log,
                   c_results, c_failed, execVars, ollamaVars, textVars>>

\* the lists derived from what for_loop_caller returned
DeriveCaller ==
    /\ entry = "for_loop_caller" /\ c_pc = "done" /\ d_pc = "idle"
    /\ d_succ' = GetSuccessfulResults(TheValue(c_ret).v.results)
    /\ d_failed' = GetFailedResults(TheValue(c_ret).v.results)
    /\ d_pc' = "done"
    /\ UNCHANGED <<entry, execVars, callerVars, ollamaVars, textVars, urlVars, cleanerVars,
                   selectVars, processorVars, amountVars, dataVars, routerVars>>

NextCaller == CallerAttempt \/ CallerSkip \/ CallerReturn \/ DeriveCaller

\* ------------------------------------------------- call_ollama, step by step
InitOllama ==
    /\ entry = "call_ollama"
    /\ o_tx \in TxHashes
    /\ o_pc = "check"
    /\ o_st = OllamaStart
    /\ o_ret = None
    /\ ExecIdle /\ CallerIdle /\ TextIdle /\ NormalizerIdle

\* lines 105-111
OllamaCheck ==
    /\ entry = "call_ollama" /\ o_pc = "check"
    /\ IF OllamaRejects(o_tx)
       THEN o_pc' = "done" /\ o_ret' = Some(OllamaReturn(OllamaStart))
       ELSE o_pc' = "loop" /\ o_ret' = o_ret
    /\ UNCHANGED <<entry, normalizerVars, o_tx, o_st, execVars, callerVars, textVars>>

\* lines 118-136: one attempt, against whatever the service answers
OllamaAttempt ==
    /\ entry = "call_ollama" /\ o_pc = "loop"
    /\ ~OllamaDone(o_st)
    /\ \E out \in ServiceOutputs : o_st' = OllamaStep(o_st, GenerateSingleApiCall(out))
    /\ UNCHANGED <<entry, normalizerVars, o_tx, o_pc, o_ret, execVars, callerVars, textVars>>

\* line 138
OllamaFinish ==
    /\ entry = "call_ollama" /\ o_pc = "loop"
    /\ OllamaDone(o_st)
    /\ o_ret' = Some(OllamaReturn(o_st))
    /\ o_pc' = "done"
    /\ UNCHANGED <<entry, normalizerVars, o_tx, o_st, execVars, callerVars, textVars>>

NextOllama == OllamaCheck \/ OllamaAttempt \/ OllamaFinish

\* ------------------------------------- the two functions that read a response
InitSingle ==
    /\ entry = "generate_single_api_call"
    /\ s_out \in ServiceOutputs
    /\ s_pc = "call" /\ s_json = None /\ s_ret = None /\ l_ret = None
    /\ ExecIdle /\ CallerIdle /\ OllamaIdle /\ NormalizerIdle

InitList ==
    /\ entry = "generate_api_call_list_from_prompt_and_csv"
    /\ s_out \in ServiceOutputs
    /\ s_pc = "call" /\ s_json = None /\ s_ret = None /\ l_ret = None
    /\ ExecIdle /\ CallerIdle /\ OllamaIdle /\ NormalizerIdle

SingleCall ==
    /\ entry = "generate_single_api_call" /\ s_pc = "call"
    /\ s_ret' = Some(GenerateSingleApiCall(s_out))
    /\ s_json' = IF s_out.timeout THEN None
                 ELSE Some(ExtractBalanced(Stdout(s_out), "{", "}"))
    /\ s_pc' = "done"
    /\ UNCHANGED <<entry, normalizerVars, s_out, l_ret, execVars, callerVars, ollamaVars>>

ListCall ==
    /\ entry = "generate_api_call_list_from_prompt_and_csv" /\ s_pc = "call"
    /\ l_ret' = Some(GenerateApiCallList(s_out))
    /\ s_json' = IF s_out.timeout THEN None
                 ELSE Some(ExtractBalanced(Stdout(s_out), "[", "]"))
    /\ s_pc' = "done"
    /\ UNCHANGED <<entry, normalizerVars, s_out, s_ret, execVars, callerVars, ollamaVars>>

NextText == SingleCall \/ ListCall

\* ------------------------------------------ the URL functions, one call each
InitUrl ==
    /\ entry \in {"extract_tx_hash_from_url", "detect_chain_from_url", "chain_patterns"}
    /\ u_url \in CellValues /\ u_pc = "call" /\ u_ret = None
    /\ GatewayIdle /\ CleanerIdle /\ SelectIdle /\ ProcessorIdle /\ RestIdle

\* extract_tx_hash_from_url(url), csv_cleaner.py lines 45-95
ExtractCall ==
    /\ entry = "extract_tx_hash_from_url" /\ u_pc = "call"
    /\ u_ret' = Some(ExtractTxHashFromUrl(u_url)) /\ u_pc' = "done"
    /\ UNCHANGED <<entry, u_url, execVars, callerVars, ollamaVars, textVars,
                   cleanerVars, selectVars, processorVars,
                   restVars>>

\* detect_chain_from_url(url), csv_cleaner.py lines 26-43
DetectCall ==
    /\ entry = "detect_chain_from_url" /\ u_pc = "call"
    /\ u_ret' = Some(DetectChainFromUrl(u_url)) /\ u_pc' = "done"
    /\ UNCHANGED <<entry, u_url, execVars, callerVars, ollamaVars, textVars,
                   cleanerVars, selectVars, processorVars,
                   restVars>>

\* the chain DataExtractor finds with chain_patterns, extractor.py lines 127-134
PatternsCall ==
    /\ entry = "chain_patterns" /\ u_pc = "call"
    /\ u_ret' = Some(ChainByPatterns(u_url)) /\ u_pc' = "done"
    /\ UNCHANGED <<entry, u_url, execVars, callerVars, ollamaVars, textVars,
                   cleanerVars, selectVars, processorVars,
                   restVars>>

NextUrl == ExtractCall \/ DetectCall \/ PatternsCall

\* ------------------------------------------------- clean_and_classify_csv
\* what lines 137-217 make of each raw row
CleanedRows == [row \in RawRows |-> CleanRow(row)]

\* the tables: what csv.DictReader yields for the file
Tables == UNION { [1..n -> RawRows] : n \in 0..MaxCsvRows }

InitCleaner ==
    /\ entry = "clean_and_classify_csv"
    /\ k_table \in Tables /\ k_pc = "loop" /\ k_done = <<>> /\ k_rows = <<>>
    /\ k_counts = <<0, 0, 0>> /\ k_total = 0 /\ k_skipped = 0 /\ k_ret = None
    /\ GatewayIdle /\ UrlIdle /\ SelectIdle /\ ProcessorIdle /\ RestIdle

TypeIndex(type) == CHOOSE i \in DOMAIN FunctionType : FunctionType[i] = type

\* mutant: a row that raised is dropped without being counted as skipped
CleanerRowForgetsRaised ==
    /\ entry = "clean_and_classify_csv" /\ k_pc = "loop" /\ k_total < Len(k_table)
    /\ LET r == CleanedRows[k_table[k_total + 1]]
       IN  /\ k_total' = k_total + 1
           /\ k_done' = Append(k_done, r)
           /\ IF r.kept
              THEN /\ k_rows' = Append(k_rows, r.cleaned)
                   /\ k_counts' = [k_counts EXCEPT ![TypeIndex(r.type)] = @ + 1]
                   /\ UNCHANGED k_skipped
              ELSE /\ k_skipped' = IF k_table[k_total + 1].extra THEN k_skipped
                                   ELSE k_skipped + 1
                   /\ UNCHANGED <<k_rows, k_counts>>
    /\ UNCHANGED <<entry, k_table, k_pc, k_ret, execVars, callerVars, ollamaVars,
                   textVars, urlVars, selectVars, processorVars,
                   restVars>>

\* lines 134-217: one turn of the loop
CleanerRow ==
    /\ entry = "clean_and_classify_csv" /\ k_pc = "loop" /\ k_total < Len(k_table)
    /\ LET r == CleanedRows[k_table[k_total + 1]]
       IN  /\ k_total' = k_total + 1
           /\ k_done' = Append(k_done, r)
           /\ IF r.kept
              THEN /\ k_rows' = Append(k_rows, r.cleaned)
                   /\ k_counts' = [k_counts EXCEPT ![TypeIndex(r.type)] = @ + 1]
                   /\ UNCHANGED k_skipped
              ELSE /\ k_skipped' = k_skipped + 1
                   /\ UNCHANGED <<k_rows, k_counts>>
    /\ UNCHANGED <<entry, k_table, k_pc, k_ret, execVars, callerVars, ollamaVars,
                   textVars, urlVars, selectVars, processorVars,
                   restVars>>

\* lines 219-235: the reader is exhausted
CleanerReturn ==
    /\ entry = "clean_and_classify_csv" /\ k_pc = "loop" /\ k_total = Len(k_table)
    /\ k_ret' = Some(<<SelectFunction(k_counts, k_rows), k_rows>>)
    /\ k_pc' = "done"
    /\ UNCHANGED <<entry, k_table, k_done, k_rows, k_counts, k_total, k_skipped,
                   execVars, callerVars, ollamaVars, textVars, urlVars, selectVars, processorVars,
                   restVars>>

\* the selection of lines 228-229 on the tallies of at most MaxCsvRows rows,
\* one row at least
Tallies ==
    { t \in [DOMAIN FunctionType -> 0..MaxCsvRows] : t[1] + t[2] + t[3] \in 1..MaxCsvRows }

InitSelect ==
    /\ entry = "most_common"
    /\ m_counts \in Tallies /\ m_pc = "call" /\ m_ret = None
    /\ GatewayIdle /\ UrlIdle /\ CleanerIdle /\ ProcessorIdle /\ RestIdle

SelectCall ==
    /\ entry = "most_common" /\ m_pc = "call"
    /\ m_ret' = Some(MostCommon(m_counts)) /\ m_pc' = "done"
    /\ UNCHANGED <<entry, m_counts, execVars, callerVars, ollamaVars, textVars,
                   urlVars, cleanerVars, processorVars,
                   restVars>>

\* the amount coercion of lines 141-156 on one cell of an amount column, and
\* again on str() of the float it gave
InitAmount ==
    /\ entry = "amount"
    /\ v_raw \in AmountTexts /\ v_pc = "call" /\ v_first = None /\ v_second = None
    /\ GatewayIdle /\ UrlIdle /\ CleanerIdle /\ SelectIdle /\ ProcessorIdle
    /\ DerivedIdle /\ DataIdle /\ RouterIdle

AmountCoerce ==
    /\ entry = "amount" /\ v_pc = "call"
    /\ v_first' = CleanAmount(Some(v_raw)) /\ v_pc' = "again"
    /\ UNCHANGED <<entry, v_raw, v_second, execVars, callerVars, ollamaVars, textVars,
                   urlVars, cleanerVars, selectVars, processorVars, derivedVars, dataVars,
                   routerVars>>

AmountAgain ==
    /\ entry = "amount" /\ v_pc = "again"
    /\ v_second' = IF v_first = None THEN None
                   ELSE CleanAmount(Some(FloatStr(TheValue(v_first))))
    /\ v_pc' = "done"
    /\ UNCHANGED <<entry, v_raw, v_first, execVars, callerVars, ollamaVars, textVars,
                   urlVars, cleanerVars, selectVars, processorVars, derivedVars, dataVars,
                   routerVars>>

NextCleaner == CleanerRow \/ CleanerReturn \/ SelectCall \/ AmountCoerce \/ AmountAgain

\* ------------------------------------------------- process_natural_language
\* keyword_map, processor.py lines 240-247, in the order of the dict
keyword_map ==
    << [keyword |-> <<"expense">>, func |-> "tag_as_expense"],
       [keyword |-> <<"tag">>, func |-> "tag_as_expense"],
       [keyword |-> <<"transaction", " ", "detail">>, func |-> "get_transaction"],
       [keyword |-> <<"transaction", " ", "info">>, func |-> "get_transaction"],
       [keyword |-> <<"receipt">>, func |-> "get_receipt"],
       [keyword |-> <<"gas">>, func |-> "get_receipt"] >>

\* the keywords contained in a prompt (keyword in prompt), by their places in
\* keyword_map
KeywordsIn(prompt) ==
    {i \in DOMAIN keyword_map : ContainsSeq(prompt, keyword_map[i].keyword)}

\* mutant: a prompt without a keyword is classified as get_transaction
InferFunctionDefaults(prompt) ==
    IF KeywordsIn(prompt) = {} THEN Some("get_transaction")
    ELSE Some(keyword_map[CHOOSE i \in KeywordsIn(prompt) :
                             \A j \in KeywordsIn(prompt) : i <= j].func)

\* _infer_function_from_prompt, lines 229-253: the function of the first
\* keyword of the table that the prompt contains
InferFunctionFromPrompt(prompt) ==
    IF KeywordsIn(prompt) = {} THEN None
    ELSE Some(keyword_map[CHOOSE i \in KeywordsIn(prompt) :
                             \A j \in KeywordsIn(prompt) : i <= j].func)

\* parser._extract_tx_hash_and_chain(row['tx_link']), line 192: class CSVParser
\* (csv_parser.py lines 25-161) has no attribute of that name, so the lookup
\* raises before anything is called
ExtractTxHashAndChain(tx_link) == Raise("AttributeError")

\* float(row[key]) if key in row else None, lines 205-206
FloatOrNone(cell) == IF cell = None THEN Ret(None) ELSE ParseFloat(TheValue(cell))

\* lines 187-223: the body of the loop for one row; a field of the row is None
\* when the row has no such key
FormatRow(function_name, row) ==
    IF row.tx_link = None THEN Raise("skip")
    ELSE Only({ IF found.k = "raise" \/ found.v.tx_hash = None THEN Raise("skip")
                ELSE IF function_name = "tag_as_expense"
                THEN Only({ IF eth.k = "raise" \/ usd.k = "raise" THEN Raise("skip")
                            ELSE Ret([tx_hash |-> found.v.tx_hash, chain |-> found.v.chain,
                                      expense_category |->
                                          IF row.purpose = None THEN <<"Unspecified">>
                                          ELSE TheValue(row.purpose),
                                      amount_in_eth |-> eth.v, amount_in_usd |-> usd.v]) :
                            eth \in {FloatOrNone(row.eth)}, usd \in {FloatOrNone(row.usd)} })
                ELSE IF function_name \in {"get_transaction", "get_receipt"}
                THEN Ret([tx_hash |-> found.v.tx_hash, chain |-> found.v.chain])
                ELSE Raise("skip") :
                found \in {ExtractTxHashAndChain(TheValue(row.tx_link))} })

\* the prompts: up to MaxPromptWords words with single spaces between them
PromptWords ==
    { <<"Tag">>, <<"expense", "s">>, <<"vin", "tag", "e">>, <<"transaction">>,
      <<"detail", "s">>, <<"info">>, <<"receipt">>, <<"GAS">>, <<"these">> }

RECURSIVE Join(_)
Join(words) ==
    IF words = <<>> THEN <<>>
    ELSE IF Len(words) = 1 THEN words[1]
    ELSE words[1] \o <<" ">> \o Join(Tail(words))

Prompts == { Join(ws) : ws \in UNION { [1..n -> PromptWords] : n \in 0..MaxPromptWords } }

\* the rows of csv_data
NlpRow(tx_link, purpose, eth, usd) ==
    [tx_link |-> tx_link, purpose |-> purpose, eth |-> eth, usd |-> usd]

NlpRows ==
    { NlpRow(None, Some(<<"lunch">>), Some(<<"0", ".", "1">>), None),
      NlpRow(Some(<<"https", ":", "/", "/", "etherscan.io", "/", "tx", "/", "s">>),
             Some(<<"lunch">>), Some(<<"0", ".", "1">>), Some(<<"5", "0">>)),
      NlpRow(Some(<<"https", ":", "/", "/", "polygonscan.com", "/", "tx", "/", "h1">>),
             None, None, None),
      NlpRow(Some(<<"lunch">>), Some(<<"lunch">>), Some(<<"a">>), None) }

InitNlp ==
    /\ entry = "process_natural_language"
    /\ n_prompt \in Prompts
    /\ n_rows \in UNION { [1..n -> NlpRows] : n \in 0..MaxNlpRows }
    /\ n_pc = "infer" /\ n_func = None /\ n_i = 0 /\ n_formatted = <<>> /\ n_ret = None
    /\ GatewayIdle /\ UrlIdle /\ CleanerIdle /\ SelectIdle /\ ApiIdle /\ RestIdle

\* lines 179-183
NlpInfer ==
    /\ entry = "process_natural_language" /\ n_pc = "infer"
    /\ n_func' = InferFunctionFromPrompt(Lower(n_prompt))
    /\ IF n_func' = None
       THEN /\ n_ret' = Some(Raise("ValueError: Could not determine function from prompt"))
            /\ n_pc' = "done"
       ELSE n_pc' = "rows" /\ UNCHANGED n_ret
    /\ UNCHANGED <<entry, n_prompt, n_rows, n_i, n_formatted, execVars, callerVars,
                   ollamaVars, textVars, urlVars, cleanerVars, selectVars, apiVars,
                   restVars>>

\* lines 187-223: one turn of the loop
NlpFormat ==
    /\ entry = "process_natural_language" /\ n_pc = "rows" /\ n_i < Len(n_rows)
    /\ LET r == FormatRow(TheValue(n_func), n_rows[n_i + 1])
       IN  n_formatted' = IF r.k = "ret" THEN Append(n_formatted, r.v) ELSE n_formatted
    /\ n_i' = n_i + 1
    /\ UNCHANGED <<entry, n_prompt, n_rows, n_pc, n_func, n_ret, execVars, callerVars,
                   ollamaVars, textVars, urlVars, cleanerVars, selectVars, apiVars,
                   restVars>>

\* lines 225-228
NlpReturn ==
    /\ entry = "process_natural_language" /\ n_pc = "rows" /\ n_i = Len(n_rows)
    /\ n_ret' = IF n_formatted = <<>>
                THEN Some(Raise("ValueError: No valid rows could be processed"))
                ELSE Some(Ret(<<TheValue(n_func), n_formatted>>))
    /\ n_pc' = "done"
    /\ UNCHANGED <<entry, n_prompt, n_rows, n_func, n_i, n_formatted, execVars, callerVars,
                   ollamaVars, textVars, urlVars, cleanerVars, selectVars, apiVars,
                   restVars>>

\* ------------------------------------------------------------ api_functions
\* tag_as_expense, api_functions.py lines 8-51; the timestamp is left out
TagAsExpense(args) ==
    IF args.tx_hash = None \/ TheValue(args.tx_hash) = <<>>
    THEN Raise("ValueError: Transaction hash is required")
    ELSE Ret([method |-> "tag_as_expense",
              params |-> [tx_hash |-> args.tx_hash, chain |-> args.chain,
                          purpose |-> IF TruthyStr(args.purpose) THEN args.purpose
                                      ELSE Some(<<"Unspecified">>),
                          amount_in_eth |-> args.amount_in_eth,
                          amount_in_usd |-> args.amount_in_usd]])

\* get_transaction, lines 53-87, and get_receipt, lines 89-123
GetTransaction(args) ==
    IF args.tx_hash = None \/ TheValue(args.tx_hash) = <<>>
    THEN Raise("ValueError: Transaction hash is required")
    ELSE Ret([method |-> "get_transaction",
              params |-> [tx_hash |-> args.tx_hash, chain |-> args.chain]])

GetReceipt(args) ==
    IF args.tx_hash = None \/ TheValue(args.tx_hash) = <<>>
    THEN Raise("ValueError: Transaction hash is required")
    ELSE Ret([method |-> "get_receipt",
              params |-> [tx_hash |-> args.tx_hash, chain |-> args.chain]])

\* the keyword arguments of a call: the fields of a cleaned row; what the
\* functions do not name goes to **kwargs
ApiArgs ==
    [tx_hash : {None, Some(<<>>), Some(<<"h1">>)},
     chain : {Some("ETHEREUM"), Some("POLYGON")},
     purpose : {None, Some(<<"General">>), Some(<<"lunch">>)},
     expense_category : {None, Some(<<"lunch">>)},
     amount_in_eth : {None, Some([int |-> 0, frac |-> <<"1">>])},
     amount_in_usd : {None, Some([int |-> 50, frac |-> <<>>])}]

InitApi ==
    /\ entry = "api_functions"
    /\ a_func \in {"tag_as_expense", "get_transaction", "get_receipt"}
    /\ a_args \in ApiArgs /\ a_pc = "call" /\ a_ret = None
    /\ GatewayIdle /\ UrlIdle /\ CleanerIdle /\ SelectIdle /\ NlpIdle /\ RestIdle

ApiCall ==
    /\ entry = "api_functions" /\ a_pc = "call"
    /\ a_ret' = Some(CASE a_func = "tag_as_expense" -> TagAsExpense(a_args)
                       [] a_func = "get_transaction" -> GetTransaction(a_args)
                       [] OTHER -> GetReceipt(a_args))
    /\ a_pc' = "done"
    /\ UNCHANGED <<entry, a_func, a_args, execVars, callerVars, ollamaVars, textVars,
                   urlVars, cleanerVars, selectVars, nlpVars,
                   restVars>>

\* ------------------------------------------------------------ process_data
\* the dicts of extracted_data: tx_hash (empty when the key is missing or the
\* value is None or '') and the value under chain, if any
DataItems == [tx_hash : TxHashes, chain : {None, Some("POLYGON")}]

DataLists == UNION { [1..n -> DataItems] : n \in 0..MaxDataItems }

\* result.get('api_calls', []), line 107: result is what generate_api_calls
\* returned, a list (llm_client.py lines 113, 138, 142), and a list has no
\* attribute get
ResultGet(result) == Raise("AttributeError")

\* lines 92-146: what one turn of the loop adds to all_api_calls, api_calls
\* being the list generate_api_calls returned. Lines 109-143 are reached only
\* when line 107 gave a value, which it never does
ProcessDataItem(data, api_calls) ==
    IF data.tx_hash = <<>> THEN <<>>
    ELSE IF api_calls = <<>> THEN <<>>
    ELSE IF ResultGet(api_calls).k = "raise" THEN <<>>
    ELSE TheValue(ResultGet(api_calls).v)

InitData ==
    /\ entry = "process_data"
    /\ p_data \in DataLists /\ p_pc = "loop" /\ p_i = 0 /\ p_gen = <<>>
    /\ p_all = <<>> /\ p_ret = None
    /\ GatewayIdle /\ UrlIdle /\ CleanerIdle /\ SelectIdle /\ ProcessorIdle
    /\ AmountIdle /\ DerivedIdle /\ RouterIdle

\* lines 91-146: one turn of the loop; the script is what the service answers
\* during the call of generate_api_calls
DataItem ==
    /\ entry = "process_data" /\ p_pc = "loop" /\ p_i < Len(p_data)
    /\ \E script \in Scripts :
          LET data == p_data[p_i + 1]
              gen == IF data.tx_hash = <<>> THEN None
                     ELSE GenerateApiCalls(data.tx_hash, script).v
          IN  /\ p_gen' = Append(p_gen, gen)
              /\ p_all' = p_all \o ProcessDataItem(data, IF gen = None THEN <<>>
                                                          ELSE TheValue(gen))
    /\ p_i' = p_i + 1
    /\ UNCHANGED <<entry, p_data, p_pc, p_ret, execVars, callerVars, ollamaVars, textVars,
                   urlVars, cleanerVars, selectVars, processorVars, amountVars, derivedVars,
                   routerVars>>

\* line 148
DataReturn ==
    /\ entry = "process_data" /\ p_pc = "loop" /\ p_i = Len(p_data)
    /\ p_ret' = Some(Ret(p_all)) /\ p_pc' = "done"
    /\ UNCHANGED <<entry, p_data, p_i, p_gen, p_all, execVars, callerVars, ollamaVars,
                   textVars, urlVars, cleanerVars, selectVars, processorVars, amountVars,
                   derivedVars, routerVars>>

NextProcessor == NlpInfer \/ NlpFormat \/ NlpReturn \/ ApiCall \/ DataItem \/ DataReturn

\* ---------------------------------------------------------- CSVToAPIRouter
\* app.py line 38: timedelta(minutes=30), in minutes
cache_ttl == 30

\* the minutes that pass between two calls
Elapses == {10, 20}

Instructions == {"tag travel", "refund"}

\* line 234: f"api_spec_{instruction}"
ApiSpecQuery(instruction) ==
    CASE instruction = "tag travel" -> "api_spec_tag travel"
      [] instruction = "refund" -> "api_spec_refund"

\* _get_cache_key, lines 103-105: hashlib.md5(query.encode()).hexdigest()
GetCacheKey(query) ==
    CASE query = "csv_summary" -> "e5adede0b7aca3cd8ba5f20c2d79b4bc"
      [] query = "api_spec_tag travel" -> "216ba8d17f09c3af1377d719efb02089"
      [] query = "api_spec_refund" -> "042d1f389fba0134fcd65db2e49b7b2f"

\* what str(query_engine.query(query)) can be, and json.loads of it: ok is
\* FALSE when it is not JSON; the other fields describe the dict
ResponseTexts ==
    {"spec_tag", "spec_receipt", "prose", "spec_no_mapping", "spec_delete", "spec_args_str",
     "spec_mapping_list"}

JsonOf(response) ==
    LET all == {"api_call", "required_arguments", "csv_mapping"}
        dict(fields, api_call, args_list, mapping_dict) ==
            [ok |-> TRUE, fields |-> fields, api_call |-> api_call,
             args_list |-> args_list, mapping_dict |-> mapping_dict]
    IN  CASE response = "spec_tag" -> dict(all, "tag_as_expense", TRUE, TRUE)
          [] response = "spec_receipt" -> dict(all, "get_receipt", TRUE, TRUE)
          [] response = "spec_no_mapping" ->
                dict({"api_call", "required_arguments"}, "tag_as_expense", TRUE, FALSE)
          [] response = "spec_delete" -> dict(all, "delete_all", TRUE, TRUE)
          [] response = "spec_args_str" -> dict(all, "get_receipt", FALSE, TRUE)
          [] response = "spec_mapping_list" -> dict(all, "mark_as_refund", TRUE, FALSE)
          [] OTHER -> [ok |-> FALSE, fields |-> {}, api_call |-> "", args_list |-> FALSE,
                       mapping_dict |-> FALSE]

\* line 84
valid_api_calls == {"tag_as_expense", "mark_as_refund", "get_transaction_details", "get_receipt"}

\* _validate_response, lines 68-101
ValidateResponse(response) ==
    LET data == JsonOf(response)
        verdict(ok, msg) == [is_valid |-> ok, error_message |-> msg]
    IN  IF ~data.ok THEN verdict(FALSE, "not valid JSON")
        ELSE IF ~({"api_call", "required_arguments", "csv_mapping"} \subseteq data.fields)
        THEN verdict(FALSE, "missing required fields")
        ELSE IF data.api_call \notin valid_api_calls THEN verdict(FALSE, "Invalid api_call")
        ELSE IF ~data.args_list THEN verdict(FALSE, "required_arguments must be a list")
        ELSE IF ~data.mapping_dict THEN verdict(FALSE, "csv_mapping must be a dictionary")
        ELSE verdict(TRUE, "")

\* mutant: an entry is served until its age exceeds the TTL
GetFromCacheInclusive(cache, query, now) ==
    IF GetCacheKey(query) \in DOMAIN cache
    THEN IF now - cache[GetCacheKey(query)].timestamp <= cache_ttl
         THEN [cache |-> cache, ret |-> Some(cache[GetCacheKey(query)].response)]
         ELSE [cache |-> [key \in DOMAIN cache \ {GetCacheKey(query)} |-> cache[key]],
               ret |-> None]
    ELSE [cache |-> cache, ret |-> None]

\* _get_from_cache, lines 107-118: what it returns and what it leaves of the
\* cache
GetFromCache(cache, query, now) ==
    IF GetCacheKey(query) \in DOMAIN cache
    THEN IF now - cache[GetCacheKey(query)].timestamp < cache_ttl
         THEN [cache |-> cache, ret |-> Some(cache[GetCacheKey(query)].response)]
         ELSE [cache |-> [key \in DOMAIN cache \ {GetCacheKey(query)} |-> cache[key]],
               ret |-> None]
    ELSE [cache |-> cache, ret |-> None]

\* _add_to_cache, lines 120-124
AddToCache(cache, query, response, now) ==
    (GetCacheKey(query) :> [timestamp |-> now, response |-> response]) @@ cache

\* lines 291-300
Fallback == [kind |-> "fallback", response |-> "spec_tag"]

\* the record of a call: the entry the cache held for the query before the
\* lookup, what the lookup returned, whether the cache held the key right
\* after the lookup, and what the call returned
Called(op, query, look, ret) ==
    Some([op |-> op, query |-> query, now |-> r_now,
          before |-> IF GetCacheKey(query) \in DOMAIN r_cache
                     THEN Some(r_cache[GetCacheKey(query)]) ELSE None,
          found |-> look.ret, kept |-> GetCacheKey(query) \in DOMAIN look.cache,
          ret |-> ret])

InitRouter ==
    /\ entry = "router"
    /\ RouterIdle
    /\ GatewayIdle /\ UrlIdle /\ CleanerIdle /\ SelectIdle /\ ProcessorIdle
    /\ AmountIdle /\ DerivedIdle /\ DataIdle

\* time passes between two calls
RouterTick ==
    /\ entry = "router"
    /\ \E d \in Elapses : r_now + d <= MaxClock /\ r_now' = r_now + d
    /\ UNCHANGED <<entry, r_cache, r_memo, r_last, execVars, callerVars, ollamaVars, textVars,
                   urlVars, cleanerVars, selectVars, processorVars, amountVars, derivedVars,
                   dataVars>>

\* what str(query_engine.query(query)) comes to: a text, or an exception
Answered(response) == [k |-> "ret", v |-> response, e |-> ""]

QueryFailed == [k |-> "raise", v |-> "", e |-> "ConnectionError"]

QueryOutcomes == {Answered(r) : r \in ResponseTexts} \cup {QueryFailed}

\* generate_api_spec, lines 228-300
GenerateApiSpec ==
    /\ entry = "router"
    /\ \E instruction \in Instructions, o \in QueryOutcomes :
          LET query == ApiSpecQuery(instruction)
              look == GetFromCache(r_cache, query, r_now)
          IN  IF look.ret # None
              THEN /\ r_cache' = look.cache
                   /\ r_last' = Called("generate_api_spec", query, look,
                                        [kind |-> "cached", response |-> TheValue(look.ret)])
              ELSE IF o.k = "raise" \/ ~ValidateResponse(o.v).is_valid
              THEN /\ r_cache' = look.cache
                   /\ r_last' = Called("generate_api_spec", query, look, Fallback)
              ELSE /\ r_cache' = AddToCache(look.cache, query, o.v, r_now)
                   /\ r_last' = Called("generate_api_spec", query, look,
                                        [kind |-> "fresh", response |-> o.v])
    /\ UNCHANGED <<entry, r_now, r_memo, execVars, callerVars, ollamaVars, textVars,
                   urlVars, cleanerVars, selectVars, processorVars, amountVars, derivedVars,
                   dataVars>>

\* get_csv_summary, lines 183-226; lru_cache runs the body once for a router
GetCsvSummary ==
    /\ entry = "router" /\ r_memo = None
    /\ \E o \in {Answered("prose"), QueryFailed} :
          LET look == GetFromCache(r_cache, "csv_summary", r_now)
          IN  IF look.ret # None
              THEN /\ r_cache' = look.cache
                   /\ r_memo' = look.ret
                   /\ r_last' = Called("get_csv_summary", "csv_summary", look,
                                        [kind |-> "cached", response |-> TheValue(look.ret)])
              ELSE IF o.k = "raise"
              THEN /\ r_cache' = look.cache
                   /\ r_memo' = Some("Error analyzing CSV")
                   /\ r_last' = Called("get_csv_summary", "csv_summary", look,
                                        [kind |-> "error", response |-> "Error analyzing CSV"])
              ELSE /\ r_cache' = AddToCache(look.cache, "csv_summary", o.v, r_now)
                   /\ r_memo' = Some(o.v)
                   /\ r_last' = Called("get_csv_summary", "csv_summary", look,
                                        [kind |-> "fresh", response |-> o.v])
    /\ UNCHANGED <<entry, r_now, execVars, callerVars, ollamaVars, textVars,
                   urlVars, cleanerVars, selectVars, processorVars, amountVars, derivedVars,
                   dataVars>>

NextRouter == RouterTick \/ GenerateApiSpec \/ GetCsvSummary

\* ------------------------------------------------------------ specifications
\* the router of app.py: its response cache under the calls of its methods
SpecRouter == InitRouter /\ [][NextRouter]_vars

InitDispatch == InitExec \/ InitCaller

NextDispatch == NextExec \/ NextCaller

\* the batch dispatcher: BatchExecutor.execute and for_loop_caller
SpecDispatch == InitDispatch /\ [][NextDispatch]_vars

\* BatchExecutor.execute on a function that returns a value, returns None or
\* raises, with the scheduling of its pool: a worker thread that is free takes
\* the oldest queued item, and a call of the row function that was started
\* comes to an end
InitExecFunc == InitExec /\ e_func = "func"

SpecExecute ==
    /\ InitExecFunc /\ [][NextExec]_vars
    /\ WF_vars(\E i \in 1..N : Start(i))
    /\ WF_vars(\E i \in 1..N : Finish(i))

InitGateway == InitOllama \/ InitSingle \/ InitList

NextGateway == NextOllama \/ NextText

\* the structured-extraction gateway
SpecGateway == InitGateway /\ [][NextGateway]_vars

\* the URL functions of the normalizer and of the extractor
SpecUrl == InitUrl /\ [][NextUrl]_vars

InitNormalizer == InitCleaner \/ InitSelect \/ InitAmount

\* the normalizer: clean_and_classify_csv and its selection
SpecCleaner == InitNormalizer /\ [][NextCleaner]_vars

InitProcessor == InitNlp \/ InitApi \/ InitData

\* the instruction path of the processor and the direct api functions
SpecProcessor == InitProcessor /\ [][NextProcessor]_vars

Init ==
    InitDispatch \/ InitGateway \/ InitUrl \/ InitNormalizer \/ InitProcessor \/ InitRouter

Next ==
    NextDispatch \/ NextGateway \/ NextUrl \/ NextCleaner \/ NextProcessor \/ NextRouter

Spec == Init /\ [][Next]_vars

\* ------------------------------------------------------------------ claims
\* what execute returned
ExecRet == TheValue(e_ret)

ExecReturned == entry = "execute" /\ e_ret # None

\* what for_loop_caller returned
CallerRet == TheValue(c_ret)

CallerReturned == entry = "for_loop_caller" /\ c_ret # None

RowNumbersOf(seq) == {seq[i].row_number : i \in DOMAIN seq}

Occurrences(seq, rn) == Cardinality({i \in DOMAIN seq : seq[i].row_number = rn})

\* C1: BatchExecutor.execute returns exactly one ExecutionResult per input
\* item: it returns a list, the list is as long as data_list, and every row
\* number occurs in it as often as it was submitted, whatever the rows'
\* functions did.
C1_OneResultPerItem ==
    ExecReturned =>
        /\ ExecRet.k = "ret"
        /\ Len(ExecRet.v) = Len(e_rows)
        /\ \A rn \in RowNumbersOf(ExecRet.v) \cup RowNumbersOf(e_rows) :
              Occurrences(ExecRet.v, rn) = Occurrences(e_rows, rn)

\* a call over several rows has returned, one row raised and another did not
C1_Witness ==
    /\ ExecReturned /\ e_pc = "done" /\ Len(e_rows) >= 2
    /\ \E i, j \in 1..N :
          /\ TheValue(e_outcome[i]).out.k = "raise"
          /\ TheValue(e_outcome[j]).out.k = "ret"

\* C2: the list execute returns is sorted by row_number ascending, in the
\* order of the input, the i-th entry being the result of the i-th item's
\* future, whatever the order in which the workers finished.
C2_SortedByRowNumber ==
    (ExecReturned /\ ExecRet.k = "ret") =>
        /\ \A i, j \in DOMAIN ExecRet.v :
              i < j => ExecRet.v[i].row_number < ExecRet.v[j].row_number
        /\ DOMAIN ExecRet.v = DOMAIN e_rows
        /\ \A i \in DOMAIN ExecRet.v :
              /\ ExecRet.v[i].row_number = e_rows[i].row_number
              /\ ExecRet.v[i] = TheValue(e_fut[i].res).v

\* execute has returned after the futures completed in the reverse of the
\* input order
C2_Witness ==
    /\ ExecReturned /\ e_pc = "done" /\ Len(e_rows) >= 3
    /\ \A i, j \in DOMAIN e_order : i < j => e_order[i] > e_order[j]

\* the result the claim C3 gives to a row whose call came to o
C3_Expected(o, rn) ==
    [success |-> o.k = "ret",
     data |-> IF o.k = "ret" THEN o.v ELSE None,
     error |-> IF o.k = "ret" THEN None ELSE Some(o.e),
     row_number |-> rn]

\* C3: a per-row exception never escapes the dispatcher and never changes
\* another row's outcome.  execute and for_loop_caller return normally; a row
\* whose function raised (in for_loop_caller: on its last attempt, so on every
\* attempt) has exactly one result, with success=False and the message of the
\* exception as error; every row's result is decided by what its own call came
\* to and by nothing else.
C3_RowFailureIsolated ==
    /\ ExecReturned =>
          /\ ExecRet.k = "ret"
          /\ \A i \in 1..N :
                \E p \in DOMAIN ExecRet.v :
                   ExecRet.v[p] = C3_Expected(TheValue(e_outcome[i]).out,
                                              e_rows[i].row_number)
    /\ CallerReturned =>
          /\ CallerRet.k = "ret"
          /\ \A i \in 1..c_n :
                c_calls[i] > 0 =>
                   /\ Occurrences(CallerRet.v.results, i) = 1
                   /\ \E p \in DOMAIN CallerRet.v.results :
                         CallerRet.v.results[p] = C3_Expected(TheValue(c_last[i]), i)

\* for_loop_caller has returned; row 1 raised on each of three attempts and
\* row 2 succeeded
C3_Witness ==
    /\ CallerReturned /\ c_n >= 2 /\ c_max = 3
    /\ c_calls[1] = 3 /\ TheValue(c_last[1]) = Raise("timed out")
    /\ TheValue(c_last[2]).k = "ret"
    /\ ~CallerRet.v.results[1].success /\ CallerRet.v.results[2].success

\* a result has exactly one of data/error, on the side success names
ExactlyOneOfDataError(r) ==
    /\ r.success => (r.data # None /\ r.error = None)
    /\ ~r.success => (r.error # None /\ r.data = None)

\* C4: every ExecutionResult that execute returns and every CallResult that
\* for_loop_caller returns has exactly one of data/error non-null:
\* success=True with data non-null and error null, or success=False with error
\* non-null and data null, whatever the processing function returned, None
\* included.
C4_ExactlyOneOfDataError ==
    /\ (ExecReturned /\ ExecRet.k = "ret") =>
          \A p \in DOMAIN ExecRet.v : ExactlyOneOfDataError(ExecRet.v[p])
    /\ (CallerReturned /\ CallerRet.k = "ret") =>
          \A p \in DOMAIN CallerRet.v.results :
             ExactlyOneOfDataError(CallerRet.v.results[p])

\* the rows of the call whose gateway call ran out of attempts on timeouts
TimedOutRows ==
    {i \in 1..N : e_outcome[i] # None /\ TheValue(e_outcome[i]).timedout}

\* C5: when the gateway ran out of its 3 attempts on timeouts for a row, the
\* result execute returns for that row has success=False and an error saying
\* it timed out, and every other row of the batch has its result too.
C5_TimeoutMarksRowFailed ==
    (ExecReturned /\ ExecRet.k = "ret" /\ e_func = "_process_single_row") =>
        /\ \A i \in TimedOutRows :
              \E p \in DOMAIN ExecRet.v :
                 /\ ExecRet.v[p].row_number = e_rows[i].row_number
                 /\ ~ExecRet.v[p].success
                 /\ ExecRet.v[p].error = Some("timed out")
        /\ \A i \in 1..N : Occurrences(ExecRet.v, e_rows[i].row_number) = 1

\* the calls and sleeps call_ollama has made so far
OllamaLog == o_st.log

CallsFor(m) == {p \in DOMAIN OllamaLog : OllamaLog[p].ev = "call" /\ OllamaLog[p].method = m}

\* C6: call_ollama makes at most 3 attempts per method with exponential
\* backoff.  For each method generate_single_api_call is invoked at most 3
\* times, the attempts are numbered 0, 1, 2 in order, no attempt follows a
\* successful one, attempt 1 comes right after a 2 second sleep that follows
\* the failed attempt 0, attempt 2 right after a 4 second sleep that follows
\* the failed attempt 1, and there is no sleep anywhere else, in particular
\* none after the last attempt.
C6_ThreeAttemptsExponentialBackoff ==
    entry = "call_ollama" =>
        /\ \A m \in DOMAIN Methods :
              /\ Cardinality(CallsFor(m)) <= 3
              /\ \A p, q \in CallsFor(m) : p < q => ~OllamaLog[p].ok
        /\ \A p \in DOMAIN OllamaLog :
              LET e == OllamaLog[p]
              IN  /\ e.attempt \in {0, 1, 2}
                  /\ (e.ev = "call" /\ e.attempt = 0) =>
                         (p > 1 => OllamaLog[p - 1].ev = "call"
                                   /\ OllamaLog[p - 1].method < e.method)
                  /\ (e.ev = "call" /\ e.attempt > 0) =>
                         /\ p > 2
                         /\ OllamaLog[p - 1] =
                               SleepEvent(e.method, e.attempt - 1,
                                          IF e.attempt = 1 THEN 2 ELSE 4)
                  /\ e.ev = "sleep" =>
                         /\ p > 1
                         /\ OllamaLog[p - 1] = CallEvent(e.method, e.attempt, FALSE)
                         /\ e.attempt < 2
                         /\ e.delay = (IF e.attempt = 0 THEN 2 ELSE 4)
                  /\ (e.ev = "call" /\ ~e.ok /\ e.attempt = 2 /\ p < Len(OllamaLog)) =>
                         OllamaLog[p + 1].ev = "call"

\* call_ollama has returned; the first method failed three times, with the
\* sleeps of 2 and 4 seconds in between and none after, and the second
\* method succeeded on its third attempt
C6_Witness ==
    /\ entry = "call_ollama" /\ o_pc = "done" /\ Len(OllamaLog) = 10
    /\ OllamaLog[5] = CallEvent(1, 2, FALSE)
    /\ OllamaLog[6] = CallEvent(2, 0, FALSE)
    /\ OllamaLog[7] = SleepEvent(2, 0, 2)
    /\ OllamaLog[9] = SleepEvent(2, 1, 4)
    /\ OllamaLog[10] = CallEvent(2, 2, TRUE)

\* every attempt call_ollama made failed and it made them all
AllAttemptsFailed ==
    /\ \A p \in DOMAIN OllamaLog : ~OllamaLog[p].ok
    /\ \A m \in DOMAIN Methods : Cardinality(CallsFor(m)) = max_retries

\* C7: when every attempt of a gateway call failed and the retry ceiling is
\* reached, call_ollama returns None to its caller and does not raise.
C7_ExhaustedReturnsNone ==
    (entry = "call_ollama" /\ o_pc = "done" /\ AllAttemptsFailed) =>
        TheValue(o_ret) = Ret(None)

\* the gateway function under test has returned
SingleReturned == entry = "generate_single_api_call" /\ s_pc = "done"

ListReturned == entry = "generate_api_call_list_from_prompt_and_csv" /\ s_pc = "done"

SingleRet == TheValue(s_ret)

ListResult == TheValue(l_ret)

\* the extraction the function made (defined when the service did not time out)
Extraction == TheValue(s_json)

\* the response is empty or prose only
NoPayload == \A p \in DOMAIN Stdout(s_out) : Stdout(s_out)[p] \in {"w", "F"}

\* the delimiters never balance
Unbalanced == ~s_out.timeout /\ Extraction.found = "incomplete"

\* the extracted text is not JSON
InvalidJson == ~s_out.timeout /\ Extraction.found = "ok" /\ ~JsonLoads(Extraction.str).ok

\* the extracted text is a JSON object
ParsedObject == ~s_out.timeout /\ Extraction.found = "ok" /\ JsonLoads(Extraction.str).ok

TheObject == JsonLoads(Extraction.str).v

\* the object lacks method, or params, or its params are no object with a
\* key among `keys'
LacksMethodParamsOr(keys) ==
    /\ ParsedObject
    /\ \/ "method" \notin DOMAIN TheObject.m
       \/ "params" \notin DOMAIN TheObject.m
       \/ TheObject.m["params"].t # "obj"
       \/ DOMAIN TheObject.m["params"].m \cap keys = {}

\* (None, error message)
NoneWithMessage(r) == r.k = "ret" /\ r.calls = None /\ r.msg # None

\* C8 as stated: for a timeout, empty output, prose-only output, unbalanced
\* braces, invalid JSON, or a payload missing method/params/tx_hash,
\* generate_single_api_call returns None, and for a timeout, empty or
\* prose-only output, unbalanced brackets or invalid JSON
\* generate_api_call_list_from_prompt_and_csv returns (None, error message).
C8_AsStated ==
    /\ SingleReturned =>
          ((s_out.timeout \/ NoPayload \/ Unbalanced \/ InvalidJson
              \/ LacksMethodParamsOr({"tx_hash"}))
           => SingleRet = Ret(None))
    /\ ListReturned =>
          ((s_out.timeout \/ NoPayload \/ Unbalanced \/ InvalidJson)
           => NoneWithMessage(ListResult))

\* the extracted text parses neither as JSON nor as a Python literal
Unparseable == ~s_out.timeout /\ Extraction.found = "ok" /\ ~ParseApiCalls(Extraction.str).ok

\* the extracted text is a list
ParsedList ==
    /\ ~s_out.timeout /\ Extraction.found = "ok"
    /\ ParseApiCalls(Extraction.str).ok
    /\ ParseApiCalls(Extraction.str).v.t = "list"

TheItems == ParseApiCalls(Extraction.str).v.items

HasRequiredKeys(item) ==
    item.t = "obj" /\ "function" \in DOMAIN item.m /\ "params" \in DOMAIN item.m

\* C8, amended: no outcome of the service leaves either function as an
\* exception.  generate_single_api_call returns None for a timeout, an empty or
\* prose-only output, braces that never balance, an extracted text that is not
\* JSON, and an object that lacks method or params or whose params are not an
\* object holding tx_hash or one of its aliases (transactionHash, txn_hash,
\* hash, txnHash).  generate_api_call_list_from_prompt_and_csv returns (None,
\* message) for a timeout, an empty or prose-only output, brackets that never
\* balance, an extracted text that parses neither as JSON nor as a Python
\* literal, and a list with no dict item holding function and params and no
\* string item.
C8_NoExceptionEscapes ==
    /\ SingleReturned =>
          /\ SingleRet.k = "ret"
          /\ (s_out.timeout \/ NoPayload \/ Unbalanced \/ InvalidJson
                \/ LacksMethodParamsOr(Range(AliasKeys)))
             => SingleRet = Ret(None)
    /\ ListReturned =>
          /\ ListResult.k = "ret"
          /\ (s_out.timeout \/ NoPayload \/ Unbalanced \/ Unparseable
                \/ (ParsedList /\ \A i \in DOMAIN TheItems :
                                     ~HasRequiredKeys(TheItems[i]) /\ TheItems[i].t # "str"))
             => NoneWithMessage(ListResult)

\* generate_single_api_call has returned None for a fenced object between
\* prose whose params hold neither tx_hash nor an alias of it: the ValueError
\* of the validation did not leave the function
C8_Witness ==
    /\ SingleReturned
    /\ s_out.fenced /\ s_out.lead = <<"w">> /\ s_out.trail = <<"w">>
    /\ s_out.body = <<"{", "M", "P", "{", "N", "q", "w", "q", "}", "}">>
    /\ SingleApiCallTry(s_out) = Raise("ValueError")
    /\ SingleRet = Ret(None)

\* the leading commentary holds no delimiter of the kind the scan looks for
PlainLead(open) == Find(s_out.lead, open) = 0

\* C9: extraction succeeds on noisy text.  For every response made of
\* optional leading commentary (holding no opening delimiter), optional code
\* fences, one valid JSON payload (an object for generate_single_api_call, an
\* array for generate_api_call_list_from_prompt_and_csv) and arbitrary trailing
\* prose, the balanced scan from the first opening delimiter extracts exactly
\* that payload, from its opening delimiter to the matching closing one, and
\* the trailing prose is ignored.
C9_ExtractionOnNoisyText ==
    /\ (SingleReturned /\ ~s_out.timeout /\ PlainLead("{")
          /\ JsonLoads(s_out.body).ok /\ JsonLoads(s_out.body).v.t = "obj")
       => Extraction = [found |-> "ok", str |-> s_out.body]
    /\ (ListReturned /\ ~s_out.timeout /\ PlainLead("[")
          /\ JsonLoads(s_out.body).ok /\ JsonLoads(s_out.body).v.t = "list")
       => Extraction = [found |-> "ok", str |-> s_out.body]

\* the items of the parsed list that the function keeps, in order: a dict
\* holding function and params as it is, a string as {"function": s, "params": {}}
RECURSIVE KeptItems(_)
KeptItems(items) ==
    IF items = <<>> THEN <<>>
    ELSE LET rest == KeptItems(Tail(items))
         IN  IF HasRequiredKeys(Head(items)) THEN <<Head(items)>> \o rest
             ELSE IF Head(items).t = "str" THEN <<Coerced>> \o rest
             ELSE rest

\* C10 as stated: generate_api_call_list_from_prompt_and_csv returns a
\* non-null list exactly when at least one parsed item has the required keys
\* function and params.
C10_AsStated ==
    (ListReturned /\ ParsedList) =>
        (ListResult.calls # None
           <=> \E i \in DOMAIN TheItems : HasRequiredKeys(TheItems[i]))

\* C10, amended: given a parsed list, the function returns a non-null list
\* exactly when at least one item is a dict holding function and params or a
\* bare string, which it coerces to {"function": s, "params": {}}.  The list
\* it returns holds, in the order of the response, every dict item that has
\* both keys and the coercion of every string item, and nothing else; an item
\* rejected for missing keys or for its type has its own entry in the errors
\* and never removes another item from the list.
C10_KeptIffSomeItemUsable ==
    (ListReturned /\ ParsedList) =>
        /\ ListResult.k = "ret"
        /\ ListResult.calls # None
             <=> \E i \in DOMAIN TheItems :
                    HasRequiredKeys(TheItems[i]) \/ TheItems[i].t = "str"
        /\ ListResult.calls # None => TheValue(ListResult.calls) = KeptItems(TheItems)
        /\ \A i \in DOMAIN TheItems :
              (TheItems[i].t = "obj" /\ ~HasRequiredKeys(TheItems[i]))
                 => [idx |-> i - 1, why |-> "missing keys"] \in Range(ListResult.errors)
        /\ \A i \in DOMAIN TheItems :
              (TheItems[i].t = "list")
                 => [idx |-> i - 1, why |-> "not a dict or string"] \in Range(ListResult.errors)

\* the function has returned for a response whose first item lacks params and
\* whose second item is valid: the list holds the second item alone and the
\* errors name item 0
C10_Witness ==
    /\ ListReturned /\ ParsedList
    /\ Len(TheItems) = 2
    /\ ~HasRequiredKeys(TheItems[1]) /\ HasRequiredKeys(TheItems[2])
    /\ ListResult.calls = Some(<<TheItems[2]>>)
    /\ ListResult.errors = <<[idx |-> 0, why |-> "missing keys"]>>
    /\ ListResult.msg = Some("some malformed")

\* the number of items in the list the function returned (0 for None)
ValidCount == IF ListResult.calls = None THEN 0 ELSE Len(TheValue(ListResult.calls))

StringItems == {i \in DOMAIN TheItems : TheItems[i].t = "str"}

ErrorsAbout(i) == {p \in DOMAIN ListResult.errors : ListResult.errors[p].idx = i - 1}

\* C11 as stated: the number of valid items plus the number of error strings
\* equals the number of parsed items.
C11_AsStated ==
    (ListReturned /\ ParsedList) =>
        ValidCount + Len(ListResult.errors) = Len(TheItems)

\* C11, amended: partial success loses no rejected item.  Every parsed item
\* that is not a dict holding function and params has exactly one error
\* string, the error strings come in the order of the items, and a dict
\* holding both keys has none.  A string item is both reported and kept (as
\* its coercion), so the number of valid items plus the number of error
\* strings is the number of parsed items plus the number of string items;
\* when nothing is valid the list is None and the errors are in the message.
C11_NoRejectedItemLost ==
    (ListReturned /\ ParsedList) =>
        /\ \A i \in DOMAIN TheItems :
              Cardinality(ErrorsAbout(i)) = (IF HasRequiredKeys(TheItems[i]) THEN 0 ELSE 1)
        /\ \A p, q \in DOMAIN ListResult.errors :
              p < q => ListResult.errors[p].idx < ListResult.errors[q].idx
        /\ ValidCount + Len(ListResult.errors)
              = Len(TheItems) + Cardinality(StringItems)
        /\ (ListResult.errors # <<>>) => ListResult.msg # None

\* the function has returned for a response holding a list item (neither dict
\* nor string) and a valid item: one item kept, one error string
C11_Witness ==
    /\ ListReturned /\ ParsedList
    /\ Len(TheItems) = 2
    /\ TheItems[1].t = "list" /\ HasRequiredKeys(TheItems[2])
    /\ ValidCount = 1
    /\ ListResult.errors = <<[idx |-> 0, why |-> "not a dict or string"]>>

\* what clean_and_classify_csv returned
CleanerReturned == entry = "clean_and_classify_csv" /\ k_ret # None

CleanerName == TheValue(k_ret)[1]

CleanerRows == TheValue(k_ret)[2]

\* the rows read so far that were kept
KeptRows == {i \in DOMAIN k_done : k_done[i].kept}

\* the type the ordered rule gives a cleaned row
RuleType(c) ==
    LET has_tx_hash == c.tx_hash # None
        non_default == \/ c.purpose \notin {None, Some(<<"General">>)}
                       \/ c.expense_category \notin {None, Some(<<"General">>)}
        any_amount == c.eth # None \/ c.usd # None
    IN  IF has_tx_hash /\ (non_default \/ any_amount) THEN "tag_as_expense"
        ELSE "get_transaction"

\* C12: every row clean_and_classify_csv keeps is classified by the ordered
\* rule: tag_as_expense when it has a tx_hash and a purpose other than the
\* default "General" or an amount, get_transaction otherwise.
C12_ClassifiedByOrderedRule ==
    entry = "clean_and_classify_csv" =>
        \A i \in KeptRows : k_done[i].type = RuleType(k_done[i].cleaned)

\* the first type, in the order of declaration, among those with the highest count
FirstHighest(counts) ==
    FunctionType[CHOOSE i \in DOMAIN counts :
                    /\ \A j \in DOMAIN counts : counts[j] <= counts[i]
                    /\ \A j \in DOMAIN counts : j < i => counts[j] < counts[i]]

\* the number of kept rows of each type, counted from what became of the rows
TallyOfDone ==
    [t \in DOMAIN FunctionType |->
        Cardinality({i \in KeptRows : k_done[i].type = FunctionType[t]})]

\* C13: the selected function is the type with the highest tally over the kept
\* rows, the first declared one among several with the highest tally, and it is
\* get_transaction with an empty list of rows when no row was kept.
C13_SelectsHighestTally ==
    /\ CleanerReturned =>
          /\ Len(CleanerRows) = Cardinality(KeptRows)
          /\ IF KeptRows = {}
             THEN CleanerName = "get_transaction" /\ CleanerRows = <<>>
             ELSE CleanerName = FirstHighest(TallyOfDone)
    /\ (entry = "most_common" /\ m_ret # None) => TheValue(m_ret) = FirstHighest(m_counts)

\* the selection was made among two later types that tie for the highest count
C13_Witness ==
    /\ entry = "most_common" /\ m_ret # None
    /\ m_counts[2] = m_counts[3] /\ m_counts[1] < m_counts[2]
    /\ TheValue(m_ret) = "get_transaction"

\* what the URL function under test returned
UrlReturned(f) == entry = f /\ u_ret # None

UrlRet == TheValue(u_ret)

\* a valid hash: 0x and 64 hexadecimal characters
IsValidHash(s) == Len(s) = 1 /\ s[1] \in HashPieces

\* the places of the pieces of 66 characters that start with 0x
HashShapedAt(url) == {i \in DOMAIN url : url[i] \in Has0xPieces /\ PieceLen(url[i]) = 66}

\* the piece at i is a whole segment of the path of url
IsPathSegment(url, i) ==
    /\ i > 1 /\ url[i - 1] = "/"
    /\ i = Len(url) \/ url[i + 1] \in {"/", "?", "#"}
    /\ \A j \in 1..(i - 1) : url[j] \notin {"?", "#", " "}

\* the piece at i is the whole value of a parameter of the query of url
IsQueryValue(url, i) ==
    /\ i > 1 /\ url[i - 1] = "k="
    /\ i = Len(url) \/ url[i + 1] \in {"&", "#"}
    /\ \E j \in 1..(i - 1) : url[j] = "?"
    /\ \A j \in 1..(i - 1) : url[j] \notin {"#", " "}

\* the piece at i is a whole whitespace-delimited token of url
IsToken(url, i) ==
    /\ i = 1 \/ url[i - 1] = " "
    /\ i = Len(url) \/ url[i + 1] = " "

\* C18: when a valid hash is the only hash-shaped text of the input and is a
\* segment of the path, the value of a query parameter or a whitespace-delimited
\* token, at any position, extract_tx_hash_from_url returns exactly that hash.
C18_RecoversEmbeddedHash ==
    UrlReturned("extract_tx_hash_from_url") =>
        \A i \in DOMAIN u_url :
            ( /\ u_url[i] \in HashPieces /\ HashShapedAt(u_url) = {i}
              /\ IsPathSegment(u_url, i) \/ IsQueryValue(u_url, i) \/ IsToken(u_url, i) )
            => UrlRet = Some(<<u_url[i]>>)

\* the input is a URL with a scheme, or no URL at all
HasScheme(url) ==
    Len(url) >= 4 /\ SubSeq(url, 1, 4) \in {<<"https", ":", "/", "/">>, <<"http", ":", "/", "/">>}

\* the domain of a URL with a scheme, in lower case
DomainOf(url) ==
    LET rest == SubSeq(url, 5, Len(url))
        stops == {i \in DOMAIN rest : rest[i] \in {"/", "?", "#", " "}}
        end == IF stops = {} THEN Len(rest)
               ELSE (CHOOSE i \in stops : \A j \in stops : i <= j) - 1
    IN  Lower(SubSeq(rest, 1, end))

\* the explorer domains each of the two detections knows, with their chains
DomainsOfChainMap ==
    { <<<<"etherscan.io">>, "ETHEREUM">>, <<<<"polygonscan.com">>, "POLYGON">>,
      <<<<"optimistic.", "etherscan.io">>, "OPTIMISM">>,
      <<<<"arbiscan.io">>, "ARBITRUM">>, <<<<"basescan.org">>, "BASE">> }

DomainsOfPatterns ==
    { <<<<"optimistic.", "etherscan.io">>, "OPTIMISM">>, <<<<"etherscan.io">>, "ETHEREUM">>,
      <<<<"polygonscan.com">>, "POLYGON">>, <<<<"bscscan.com">>, "BSC">> }

\* the chain of the known domain that is the domain of url, ETHEREUM for an
\* unknown domain and for no URL
ChainOfDomain(known, url) ==
    IF url # <<>> /\ \E d \in known : d[1] = DomainOf(url)
    THEN (CHOOSE d \in known : d[1] = DomainOf(url))[2]
    ELSE "ETHEREUM"

\* C19: for a URL with a scheme and for no URL, detect_chain_from_url and the
\* chain_patterns of DataExtractor give the chain of the URL's domain when the
\* domain is a known explorer and ETHEREUM otherwise; optimistic.etherscan.io
\* gives OPTIMISM.
C19_ChainOfKnownDomain ==
    /\ (UrlReturned("detect_chain_from_url") /\ (u_url = <<>> \/ HasScheme(u_url)))
          => UrlRet = ChainOfDomain(DomainsOfChainMap, u_url)
    /\ (UrlReturned("chain_patterns") /\ (u_url = <<>> \/ HasScheme(u_url)))
          => UrlRet = ChainOfDomain(DomainsOfPatterns, u_url)

\* C17: every row clean_and_classify_csv returns has a tx_hash that is 0x
\* followed by 64 hexadecimal characters.
C17_EmittedHashIsValid ==
    CleanerReturned =>
        \A j \in DOMAIN CleanerRows :
            CleanerRows[j].tx_hash # None /\ IsValidHash(TheValue(CleanerRows[j].tx_hash))

\* the cleaned cell of the tx_hash column of row i, when it is hash-shaped
DirectHash(i) ==
    LET direct == CleanCells(k_table[i]).tx_hash
    IN  IF direct # None /\ IsHashShaped(TheValue(direct)) THEN direct ELSE None

\* the hash derived from the tx_link of row i
LinkHash(i) ==
    LET link == CleanCells(k_table[i]).tx_link
    IN  IF link # None THEN ExtractTxHashFromUrl(TheValue(link)) ELSE None

NlpDone == entry = "process_natural_language" /\ n_ret # None

NlpRet == TheValue(n_ret)

CannotDetermine == Raise("ValueError: Could not determine function from prompt")

NoValidRows == Raise("ValueError: No valid rows could be processed")

\* the functions of the keywords the prompt contains
FunctionsIn(prompt) == {keyword_map[i].func : i \in KeywordsIn(Lower(prompt))}

\* C14 as stated: the call raises the "cannot determine function" error when
\* the prompt has no keyword, and otherwise returns the function of a keyword
\* contained in the prompt.
C14_AsStated ==
    NlpDone =>
        IF FunctionsIn(n_prompt) = {}
        THEN NlpRet = CannotDetermine /\ n_i = 0
        ELSE NlpRet.k = "ret" /\ NlpRet.v[1] \in FunctionsIn(n_prompt)

\* C14: classification is by the keyword table and never defaults.  Without a
\* keyword in the prompt the call raises the "cannot determine function" error
\* and no row is taken; with one, the function is that of a keyword contained
\* in the prompt, and the call returns it or raises the "no valid rows" error.
C14_KeywordOrError ==
    entry = "process_natural_language" =>
        /\ FunctionsIn(n_prompt) = {} => n_i = 0 /\ n_func = None
        /\ n_func # None => TheValue(n_func) \in FunctionsIn(n_prompt)
        /\ NlpDone =>
              IF FunctionsIn(n_prompt) = {}
              THEN NlpRet = CannotDetermine
              ELSE \/ NlpRet = NoValidRows
                   \/ NlpRet.k = "ret" /\ NlpRet.v[1] = TheValue(n_func)

\* a prompt of some words without a keyword was refused with rows at hand
C14_Witness ==
    /\ NlpDone /\ n_prompt # <<>> /\ n_rows # <<>>
    /\ FunctionsIn(n_prompt) = {} /\ NlpRet = CannotDetermine

\* the tx_link of a row carries a hash: its last path segment starts with 0x
CarriesHash(row) ==
    /\ row.tx_link # None /\ HasScheme(TheValue(row.tx_link))
    /\ TheValue(row.tx_link)[Len(TheValue(row.tx_link))] \in Has0xPieces

\* the formatted row the claim describes for a row that carries a hash
ExpenseRowOf(row) ==
    [tx_hash |-> <<TheValue(row.tx_link)[Len(TheValue(row.tx_link))]>>,
     chain |-> ChainOfDomain(DomainsOfChainMap, TheValue(row.tx_link)),
     expense_category |-> IF row.purpose = None THEN <<"Unspecified">> ELSE TheValue(row.purpose),
     amount_in_eth |-> FloatOrNone(row.eth).v, amount_in_usd |-> FloatOrNone(row.usd).v]

RECURSIVE ExpenseRowsOf(_)
ExpenseRowsOf(rows) ==
    IF rows = <<>> THEN <<>>
    ELSE (IF CarriesHash(Head(rows)) THEN <<ExpenseRowOf(Head(rows))>> ELSE <<>>)
         \o ExpenseRowsOf(Tail(rows))

\* C15: for a prompt that maps to tag_as_expense and rows of which one at
\* least carries a hash in its tx_link, process_natural_language returns
\* tag_as_expense and one formatted row for every such row, in input order.
C15_ExpenseRowsFormatted ==
    (NlpDone /\ n_func = Some("tag_as_expense") /\ \E i \in DOMAIN n_rows : CarriesHash(n_rows[i]))
    => NlpRet.k = "ret" /\ NlpRet.v = <<"tag_as_expense", ExpenseRowsOf(n_rows)>>

\* the required parameters of each function
RequiredParams(method) ==
    IF method = "tag_as_expense" THEN {"chain", "tx_hash", "expense_category"}
    ELSE {"chain", "tx_hash"}

\* C16: the params of every request produced for tag_as_expense hold chain,
\* tx_hash and expense_category, those of every request for get_transaction or
\* get_receipt hold chain and tx_hash, and the rows process_natural_language
\* builds for get_transaction hold exactly these two.
C16_RequiredParamsPresent ==
    /\ (entry = "api_functions" /\ a_ret # None /\ TheValue(a_ret).k = "ret")
          => RequiredParams(TheValue(a_ret).v.method) \subseteq DOMAIN TheValue(a_ret).v.params
    /\ (NlpDone /\ NlpRet.k = "ret")
          => \A j \in DOMAIN NlpRet.v[2] :
                /\ RequiredParams(NlpRet.v[1]) \subseteq DOMAIN NlpRet.v[2][j]
                /\ NlpRet.v[1] = "get_transaction" => DOMAIN NlpRet.v[2][j] = {"chain", "tx_hash"}

\* ---------------------------------------------------------------- C21
AmountDone == entry = "amount" /\ v_pc = "done"

UsesExponent(x) == \E i \in DOMAIN FloatStr(x) : FloatStr(x)[i] = "e"

\* C21: coercing an amount is idempotent: whenever a raw amount cell coerces
\* to a float x, coercing str(x) again gives x
C21_CoercionIdempotent ==
    (AmountDone /\ v_first # None) => v_second = v_first

\* the round trip on an amount whose str() has an exponent
C21_Witness ==
    AmountDone /\ v_first # None /\ UsesExponent(TheValue(v_first))

\* ---------------------------------------------------------------- C22
\* the invocations of the api function on row i, in the order of the log
CallsOfRow(i) == SelectSeq(c_log, LAMBDA ev : ev.ev = "call" /\ ev.method = i)

QueuedAt(i) == {p \in DOMAIN e_queue : e_queue[p] = i}

\* at most max_workers row functions run; an item that was submitted and is
\* neither running nor finished stands once in the queue, and only such
\* items stand there
BoundedPool ==
    entry = "execute" =>
       /\ Cardinality(Running) <= e_workers
       /\ \A i \in 1..N :
             /\ e_fut[i].st = "queued" <=> QueuedAt(i) # {}
             /\ Cardinality(QueuedAt(i)) <= 1
             /\ i < e_next <=> e_fut[i].st \in {"queued", "running", "finished"}

\* item i waits in the queue; the row function was run on item i to its end
Waits(i) == IF entry = "execute" /\ i <= N THEN e_fut[i].st = "queued" ELSE FALSE

Executed(i) ==
    IF entry = "execute" /\ i <= N THEN e_fut[i].st = "finished" /\ e_outcome[i] # None
    ELSE FALSE

\* C23: parallelism is bounded and nothing is dropped. At every moment of
\* execute at most max_workers row functions are running and the other
\* submitted rows wait in the queue; every submitted row is run to its end,
\* given that every call of the row function terminates
C23_BoundedAndNothingDropped ==
    /\ []BoundedPool
    /\ \A i \in 1..MaxRows :
          Waits(i) ~> Executed(i)

\* every worker is busy while an item waits in the queue
C23_Witness ==
    /\ entry = "execute" /\ N > e_workers
    /\ Cardinality(Running) = e_workers /\ e_queue # <<>>
    /\ \E i \in 1..N : e_fut[i].st = "finished"

\* ---------------------------------------------------------------- C24
\* C24: for_loop_caller returns one CallResult for every input row, with the
\* row numbers 1..n in ascending order, whatever max_retries (0 included)
\* and whatever calls failed
C24_OneResultPerRow ==
    CallerReturned =>
       /\ CallerRet.k = "ret"
       /\ Len(CallerRet.v.results) = c_n
       /\ \A p \in 1..c_n : CallerRet.v.results[p].row_number = p

\* ---------------------------------------------------------------- C25
\* the result list the lists were derived from
DerivedFrom == IF entry = "execute" THEN TheValue(e_ret).v ELSE TheValue(c_ret).v.results

\* C25: the derived lists partition the results: the successful payloads and
\* the failed rows together are as many as the results, for every result
\* list the dispatcher returns
C25_DerivedListsPartition ==
    d_pc = "done" => Len(d_succ) + Len(d_failed) = Len(DerivedFrom)

\* ---------------------------------------------------------------- C26
\* how far the future of an item has come
Stage(st) == CASE st = "new" -> 0 [] st = "queued" -> 1 [] st = "running" -> 2
               [] st = "finished" -> 3

\* one step of execute, seen from every item: its future moves forward by one
\* stage at most, so the function is entered once; a finished future keeps its
\* result, and the function's outcome is recorded on the step from running
\* to finished and on no other
InvokedOnce ==
    (entry = "execute") =>
       \A i \in 1..N :
          /\ Stage(e_fut'[i].st) \in {Stage(e_fut[i].st), Stage(e_fut[i].st) + 1}
          /\ e_fut[i].st = "finished" => e_fut'[i] = e_fut[i]
          /\ e_outcome'[i] # e_outcome[i] =>
                 /\ e_fut[i].st = "running" /\ e_fut'[i].st = "finished"
                 /\ e_outcome[i] = None /\ e_outcome'[i] # None

\* when execute has returned, every item was run to its end and nothing runs
\* or waits
AllFinishedAtReturn ==
    ExecReturned =>
       /\ Running = {} /\ e_queue = <<>>
       /\ \A i \in 1..N : e_fut[i].st = "finished" /\ e_outcome[i] # None

\* C26: execute invokes the processing function exactly once for every
\* submitted row, a row that failed is not run again, and execute returns
\* only after every invocation has finished
C26_OnceEachAndAllFinished ==
    [][InvokedOnce]_vars /\ []AllFinishedAtReturn

\* execute has returned for three rows on one worker, the first of which
\* raised
C26_Witness ==
    /\ ExecReturned /\ N = 3 /\ e_workers = 1
    /\ TheValue(e_outcome[1]).out.k = "raise"
    /\ ~ExecRet.v[1].success

\* ---------------------------------------------------------------- C27
\* the rows of the table that survive, by their positions: k_done holds
\* what the cleaning made of each row read
Survivors == {i \in DOMAIN k_table : i \in KeptRows}

\* C27: the row accounting of clean_and_classify_csv. When the table has been
\* read, every row is either among the cleaned rows or counted as skipped
\* (total_rows = skipped_rows + len(cleaned_rows)), the tallies of the types
\* sum to len(cleaned_rows), and the cleaned rows are the surviving rows in
\* the order of the input
C27_RowAccounting ==
    CleanerReturned =>
       /\ k_total = Len(k_table) /\ Len(k_done) = Len(k_table)
       /\ k_total = k_skipped + Len(CleanerRows)
       /\ k_counts[1] + k_counts[2] + k_counts[3] = Len(CleanerRows)
       /\ Len(CleanerRows) = Cardinality(Survivors)
       /\ \A p \in DOMAIN CleanerRows :
             CleanerRows[p] = k_done[SetToSortedSeq(Survivors)[p]].cleaned

\* a table whose first row raised and whose second row was kept
C27_Witness ==
    /\ CleanerReturned /\ Len(k_table) = 2
    /\ k_table[1].extra /\ k_skipped = 1
    /\ Len(CleanerRows) = 1 /\ Survivors = {2}

\* ---------------------------------------------------------------- C28
\* the valid-call list of the result, empty when the function returned None
TheValid == IF ListResult.calls = None THEN <<>> ELSE TheValue(ListResult.calls)

\* the list made of the items at the positions S, in their order, a string
\* item standing as its coercion
Pick(S) ==
    [p \in 1..Cardinality(S) |->
        IF TheItems[SetToSortedSeq(S)[p]].t = "str" THEN Coerced
        ELSE TheItems[SetToSortedSeq(S)[p]]]

\* C28 as stated: every parsed item is in exactly one of the two outputs: the
\* valid-call list is made of some of the items, and an item has an entry in
\* the errors if and only if it is not one of them
C28_AsStated ==
    (ListReturned /\ ParsedList) =>
        \E S \in SUBSET DOMAIN TheItems :
           /\ TheValid = Pick(S)
           /\ \A i \in DOMAIN TheItems : (i \in S) <=> (ErrorsAbout(i) = {})

\* C28, amended: a dict is in exactly one of the two outputs, the valid-call
\* list when it holds function and params and the errors otherwise; an item
\* that is neither a dict nor a string is in the errors only; a bare string is
\* in both, as its coercion in the valid-call list and with one entry in the
\* errors
C28_OneOutputExceptStrings ==
    (ListReturned /\ ParsedList) =>
        /\ TheValid = Pick({i \in DOMAIN TheItems :
                               TheItems[i].t = "str" \/ HasRequiredKeys(TheItems[i])})
        /\ \A i \in DOMAIN TheItems :
              Cardinality(ErrorsAbout(i))
                 = (IF TheItems[i].t # "str" /\ HasRequiredKeys(TheItems[i]) THEN 0 ELSE 1)

\* a response of a bare string and a dict without params: the string is in
\* the valid-call list as its coercion and in the errors, the dict in the
\* errors only
C28_Witness ==
    /\ ListReturned /\ ParsedList
    /\ Len(TheItems) = 2
    /\ TheItems[1].t = "str" /\ TheItems[2].t = "obj" /\ ~HasRequiredKeys(TheItems[2])
    /\ TheValid = <<Coerced>>
    /\ ListResult.errors = << [idx |-> 0, why |-> "is a string"],
                              [idx |-> 1, why |-> "missing keys"] >>

\* ---------------------------------------------------------------- C29
DataReturned == entry = "process_data" /\ p_ret # None

\* a generated call that names its method and holds tx_hash in its params
GoodCall(c) ==
    /\ c.t = "obj" /\ "method" \in DOMAIN c.m /\ "params" \in DOMAIN c.m
    /\ c.m["params"].t = "obj" /\ "tx_hash" \in DOMAIN c.m["params"].m

\* x is the call c with a category and a chain added
Annotates(x, c) ==
    /\ x.t = "obj" /\ {"category", "chain"} \subseteq DOMAIN x.m
    /\ \A k \in DOMAIN c.m \ {"chain"} : k \in DOMAIN x.m /\ x.m[k] = c.m[k]

\* C29: process_data passes the generated calls through. No exception leaves
\* it; an item without tx_hash adds nothing; for an item with a tx_hash for
\* which generate_api_calls returned a list, not empty, of calls that name a
\* supported method and hold the required params, the returned list holds
\* each of these calls with a category and a chain
C29_PassesCallsThrough ==
    DataReturned =>
       /\ TheValue(p_ret).k = "ret"
       /\ \A i \in DOMAIN p_data :
             (/\ p_data[i].tx_hash # <<>> /\ p_gen[i] # None
              /\ TheValue(p_gen[i]) # <<>>
              /\ \A q \in DOMAIN TheValue(p_gen[i]) : GoodCall(TheValue(p_gen[i])[q]))
             => \A q \in DOMAIN TheValue(p_gen[i]) :
                   \E r \in DOMAIN TheValue(p_ret).v :
                      Annotates(TheValue(p_ret).v[r], TheValue(p_gen[i])[q])

\* ---------------------------------------------------------------- C30
RouterCalled == entry = "router" /\ r_last # None

LastCall == TheValue(r_last)

\* the age, at the last call, of the entry its lookup met
AgeMet == LastCall.now - TheValue(LastCall.before).timestamp

\* C30: the response cache of CSVToAPIRouter. A lookup returns a response only
\* if the cache held it for the query and its age is strictly less than the
\* TTL of 30 minutes; the lookup of an entry that is older returns None and
\* removes the entry; generate_api_spec stores a response only when
\* _validate_response accepted it, so every entry under a key of
\* generate_api_spec, and every response it serves from the cache, is valid
C30_CacheServesFreshValid ==
    /\ RouterCalled =>
          /\ LastCall.found # None =>
                /\ LastCall.before # None
                /\ TheValue(LastCall.found) = TheValue(LastCall.before).response
                /\ AgeMet < cache_ttl
          /\ (LastCall.before # None /\ AgeMet >= cache_ttl) =>
                LastCall.found = None /\ ~LastCall.kept
          /\ (LastCall.op = "generate_api_spec" /\ LastCall.found # None) =>
                /\ ValidateResponse(TheValue(LastCall.found)).is_valid
                /\ LastCall.ret = [kind |-> "cached", response |-> TheValue(LastCall.found)]
    /\ entry = "router" =>
          \A i \in Instructions :
             GetCacheKey(ApiSpecQuery(i)) \in DOMAIN r_cache =>
                ValidateResponse(r_cache[GetCacheKey(ApiSpecQuery(i))].response).is_valid

\* generate_api_spec met an entry that was exactly 30 minutes old: the lookup
\* gave None and removed it, and the response of a new query was stored
C30_Witness ==
    /\ RouterCalled /\ LastCall.op = "generate_api_spec"
    /\ LastCall.before # None /\ AgeMet = cache_ttl
    /\ LastCall.found = None /\ ~LastCall.kept
    /\ LastCall.ret.kind = "fresh"
    /\ r_cache[GetCacheKey(LastCall.query)].timestamp = r_now

====
